---- MODULE Spec2Model ----
(***************************************************************************)
(* Model of the memory-mcp associative memory store (MemoryStore,          *)
(* AssociationEngine, EpisodeManager).  Persistent tables are variables;   *)
(* every coroutine is cut at its await points, so a handler is a chain of  *)
(* steps of one caller and other callers may run between two steps.        *)
(* Real-valued distances are fixed-point: 1.0 is Scale units; a weight of   *)
(* 1.0 is WeightOne units.                                                 *)
(***************************************************************************)
EXTENDS Integers, Sequences, FiniteSets, TLC

\* ----- bounds of the model ------------------------------------------------
MaxMem == 3          \* memory ids that uuid4 can hand out
MaxClock == 3        \* last value of the wall clock
Scale == 2           \* fixed-point unit: distance 1.0 = Scale
MaxContent == 2      \* distinct contents (abstract embedding vectors)
MaxEp == 1           \* episode ids that uuid4 can hand out
LinkMem == 2         \* memories saved under SpecLinks
LinkClock == 2       \* last value of the wall clock under SpecLinks
ChainMem == 3        \* memories stored under SpecChain
ChainClock == 3      \* last value of the wall clock under SpecChain
SpreadMem == 3       \* stored memories of the graphs under SpecSpread
MaxBranches == 2     \* largest max_branches passed to spread
MaxDepth == 2        \* largest max_depth passed to spread
CoactMem == 2        \* memories saved under SpecCoact

Ids == 1..MaxMem
Procs == {"c1", "c2"}     \* concurrent logical callers
Contents == 1..MaxContent
\* consolidation.py:61  the smallest replay strength, 0.05, is 1 / StrengthSteps
StrengthSteps == 20
\* a coactivation weight of 1.0; a weight of 1 / Scale is StrengthSteps units
WeightOne == StrengthSteps * Scale
Weights == 0..WeightOne
Deltas == {0 - StrengthSteps, StrengthSteps, WeightOne + StrengthSteps}
\* memories.episode_id: NULL, or the id of one episode
NoEpisode == {}
Idle == [op |-> "idle"]

VARIABLES
    memories,      \* memories table: id -> row
    rowids,        \* insertion order of the rows of memories
    embeddings,    \* embeddings table: set of memory_id
    coactivation,  \* coactivation table: <<source_id, target_id>> -> weight
    episodes,      \* episodes table: id -> [memory_ids]
    bm25_dirty,    \* BM25Index._dirty
    bm25_doc_ids,  \* BM25Index._doc_ids (as a set)
    calls,         \* per caller: the coroutine in flight and its locals
    last,          \* outcome of the call that finished last
    next_id,       \* next fresh memory id
    next_ep,       \* next fresh episode id
    clock,         \* datetime.now()
    db,            \* MemoryStore._db is not None
    hopfield_beta  \* MemoryStore._hopfield.beta

store == <<memories, rowids, embeddings, coactivation, episodes>>
index == <<bm25_dirty, bm25_doc_ids>>
ctl == <<calls, last, next_id, next_ep, clock>>
vars == <<memories, rowids, embeddings, coactivation, episodes,
          bm25_dirty, bm25_doc_ids, calls, last, next_id, next_ep, clock, db,
          hopfield_beta>>

\* ----- helpers -------------------------------------------------------------
Max(a, b) == IF a >= b THEN a ELSE b
Min(a, b) == IF a <= b THEN a ELSE b
Abs(a) == IF a >= 0 THEN a ELSE 0 - a
Range(s) == {s[i] : i \in 1..Len(s)}
Stored == DOMAIN memories
Take(seq, n) == SubSeq(seq, 1, Min(n, Len(seq)))
IdleP(p) == calls[p].op = "idle"
Finish(p, out) == /\ calls' = [calls EXCEPT ![p] = Idle]
                  /\ last' = out

\* store.py:816,825  max(0.0, min(1.0, x))
Clamp01(x) == Max(0, Min(WeightOne, x))

\* cosine distance between two abstract embedding vectors, 0.0 .. 1.0
Distance(q, c) == Min(Scale, Abs(q - c))

\* store.py:360-362  emotion = "neutral", importance = 3, category = "daily"
DefaultImportance == 3
DefaultEmotion == "neutral"
DefaultCategory == "daily"

\* store.py:372, 880  importance = max(1, min(5, importance))
ClampImportanceNone(importance) == importance

ClampImportance(importance) == Max(1, Min(5, importance))

\* store.py:73-74  activation_count DEFAULT 0, last_activated DEFAULT ''
NeverActivated == 0 - 1

\* a prediction_error of 1.0 (store.py:72, 796)
PeOne == 100

\* store.py:374-385  the row written for a new memory
NewRow(c, ts, linked) ==
    [content |-> c, timestamp |-> ts, linked_ids |-> linked,
     links |-> <<>>, episode_id |-> NoEpisode,
     emotion |-> DefaultEmotion, importance |-> DefaultImportance,
     category |-> DefaultCategory,
     prediction_error |-> 0,
     activation_count |-> 0, last_activated |-> NeverActivated]

\* store.py:278  ModernHopfieldNetwork(beta=4.0, n_iters=3)
ConfiguredBeta == 4

\* state after MemoryStore.__init__ + connect() on an empty database
Init ==
    /\ memories = <<>>
    /\ rowids = <<>>
    /\ embeddings = {}
    /\ coactivation = <<>>
    /\ episodes = <<>>
    /\ bm25_dirty = TRUE
    /\ bm25_doc_ids = {}
    /\ calls = [p \in Procs |-> Idle]
    /\ last = [op |-> "init"]
    /\ next_id = 1
    /\ next_ep = 1
    /\ clock = 0
    /\ db = TRUE
    /\ hopfield_beta = ConfiguredBeta

\* ----- save ----------------------------------------------------------------
\* store.py:369-388  id, timestamp, Memory object; suspends in _encode_document
SaveStartWith(p, c, emotion, importance, category) ==
    /\ IdleP(p)
    /\ next_id <= MaxMem
    /\ calls' = [calls EXCEPT ![p] =
                    [op |-> "save", pc |-> "encode", id |-> next_id,
                     content |-> c, timestamp |-> clock, linked |-> <<>>,
                     emotion |-> emotion, requested |-> importance,
                     importance |-> ClampImportance(importance),
                     category |-> category]]
    /\ next_id' = next_id + 1
    /\ UNCHANGED <<db, hopfield_beta, store, index, last, next_ep, clock>>

\* store.py:357-362  save(content) with the default emotion, importance, category
SaveStart(p, c) == SaveStartWith(p, c, DefaultEmotion, DefaultImportance, DefaultCategory)

\* store.py:390 / 894  await self._encode_document(...) returns a vector
EncodeOk(p) ==
    /\ calls[p].op \in {"save", "save_with_auto_link"}
    /\ calls[p].pc = "encode"
    /\ calls' = [calls EXCEPT ![p].pc = "insert"]
    /\ UNCHANGED <<db, hopfield_beta, store, index, last, next_id, next_ep, clock>>

\* store.py:390 / 894  the embedding call raises: the exception leaves the handler
EncodeFail(p) ==
    /\ calls[p].op \in {"save", "save_with_auto_link"}
    /\ calls[p].pc = "encode"
    /\ Finish(p, [op |-> calls[p].op, error |-> "embedding", id |-> calls[p].id])
    /\ UNCHANGED <<db, hopfield_beta, store, index, next_id, next_ep, clock>>

\* store.py:393-418 / 897-919  _insert: both INSERTs and one commit
InsertRowsBroken(id, row) ==
    /\ memories' = memories @@ (id :> row)
    /\ rowids' = Append(rowids, id)
    /\ embeddings' = embeddings

InsertRows(id, row) ==
    /\ memories' = memories @@ (id :> row)
    /\ rowids' = Append(rowids, id)
    /\ embeddings' = embeddings \cup {id}

SaveInsertDedup(p) ==
    /\ calls[p].op = "save"
    /\ calls[p].pc = "insert"
    /\ IF \E id \in Stored : memories[id].content = calls[p].content
         THEN UNCHANGED <<memories, rowids, embeddings>>
         ELSE InsertRows(calls[p].id,
                         [NewRow(calls[p].content, calls[p].timestamp, <<>>) EXCEPT
                             !.emotion = calls[p].emotion,
                             !.importance = calls[p].importance,
                             !.category = calls[p].category])
    /\ calls' = [calls EXCEPT ![p].pc = "mark"]
    /\ UNCHANGED <<db, hopfield_beta, coactivation, episodes, index, last, next_id, next_ep, clock>>

SaveInsert(p) ==
    /\ calls[p].op = "save"
    /\ calls[p].pc = "insert"
    /\ InsertRows(calls[p].id,
                  [NewRow(calls[p].content, calls[p].timestamp, <<>>) EXCEPT
                      !.emotion = calls[p].emotion,
                      !.importance = calls[p].importance,
                      !.category = calls[p].category])
    /\ calls' = [calls EXCEPT ![p].pc = "mark"]
    /\ UNCHANGED <<db, hopfield_beta, coactivation, episodes, index, last, next_id, next_ep, clock>>

\* store.py:421-423  mark_dirty, return memory
SaveFinish(p) ==
    /\ calls[p].op = "save"
    /\ calls[p].pc = "mark"
    /\ bm25_dirty' = TRUE
    /\ Finish(p, [op |-> "save", id |-> calls[p].id,
                   requested |-> calls[p].requested,
                   importance |-> calls[p].importance])
    /\ UNCHANGED <<db, hopfield_beta, store, bm25_doc_ids, next_id, next_ep, clock>>

\* store.py:950, 1033  max(1, min(5, depth))
MinChainDepth == 1
MaxChainDepth == 5
ClampDepth(d) == Max(MinChainDepth, Min(MaxChainDepth, d))

\* ----- search / save_with_auto_link ------------------------------------------
\* store.py:475-476  sorted by score, best first; ties keep the row order
RankInRowOrder(ids, query, acc) == ids

RECURSIVE RankByDistance(_, _, _)
RankByDistance(ids, query, acc) ==
    IF ids = <<>> THEN acc
    ELSE LET x == Head(ids)
             k == Cardinality({i \in 1..Len(acc) :
                     Distance(query, memories[acc[i]].content)
                         <= Distance(query, memories[x].content)})
         IN  RankByDistance(Tail(ids), query,
                            SubSeq(acc, 1, k) \o <<x>> \o SubSeq(acc, k + 1, Len(acc)))

\* an omitted filter: None or "" for emotion and category, None for a date
NoFilter == ""
NoDate == 0 - 1

\* store.py:442-457  the WHERE clause: the conjunction of the supplied filters
Matches(id, emotion_filter, category_filter, date_from, date_to) ==
    /\ emotion_filter # NoFilter => memories[id].emotion = emotion_filter
    /\ category_filter # NoFilter => memories[id].category = category_filter
    /\ date_from # NoDate => memories[id].timestamp >= date_from
    /\ date_to # NoDate => memories[id].timestamp <= date_to

\* store.py:459-465  SELECT ... FROM memories m JOIN embeddings e ... WHERE ...
Eligible(emotion_filter, category_filter, date_from, date_to) ==
    SelectSeq(rowids, LAMBDA id :
        id \in embeddings
          /\ Matches(id, emotion_filter, category_filter, date_from, date_to))

\* store.py:427-487  _vector_search: filter, rank by distance, truncate
VectorSearchFilterLast(query, n_results, emotion_filter, category_filter, date_from, date_to) ==
    LET ranked == RankByDistance(rowids, query, <<>>)
    IN  SelectSeq(SubSeq(ranked, 1, Min(n_results, Len(ranked))), LAMBDA id :
            id \in embeddings
              /\ Matches(id, emotion_filter, category_filter, date_from, date_to))

VectorSearch(query, n_results, emotion_filter, category_filter, date_from, date_to) ==
    LET ranked == RankByDistance(
                      Eligible(emotion_filter, category_filter, date_from, date_to),
                      query, <<>>)
    IN  SubSeq(ranked, 1, Min(n_results, Len(ranked)))

\* store.py:427-509  search without filters: the n_results nearest memory ids
Search(query, n_results) == VectorSearch(query, n_results, NoFilter, NoFilter, NoDate, NoDate)

RECURSIVE WithinThreshold(_, _, _)
WithinThreshold(seq, query, link_threshold) ==
    IF seq = <<>> THEN <<>>
    ELSE IF Distance(query, memories[Head(seq)].content) <= link_threshold
         THEN <<Head(seq)>> \o WithinThreshold(Tail(seq), query, link_threshold)
         ELSE WithinThreshold(Tail(seq), query, link_threshold)

\* store.py:873-875  the ids of the hits within link_threshold
MemoriesToLink(query, link_threshold, max_links) ==
    WithinThreshold(Search(query, max_links), query, link_threshold)

\* store.py:873-894  search, id, Memory object; suspends in _encode_document
SwalStartWith(p, c, emotion, importance, category, link_threshold, max_links) ==
    /\ IdleP(p)
    /\ next_id <= MaxMem
    /\ calls' = [calls EXCEPT ![p] =
                    [op |-> "save_with_auto_link", pc |-> "encode", id |-> next_id,
                     content |-> c, timestamp |-> clock,
                     linked |-> MemoriesToLink(c, link_threshold, max_links),
                     emotion |-> emotion, requested |-> importance,
                     importance |-> ClampImportance(importance),
                     category |-> category]]
    /\ next_id' = next_id + 1
    /\ UNCHANGED <<db, hopfield_beta, store, index, last, next_ep, clock>>

\* store.py:864-872  save_with_auto_link with the default emotion, importance, category
SwalStart(p, c, link_threshold, max_links) ==
    SwalStartWith(p, c, DefaultEmotion, DefaultImportance, DefaultCategory,
                  link_threshold, max_links)

\* store.py:897-921  _insert with the linked_ids of the search
SwalInsert(p) ==
    /\ calls[p].op = "save_with_auto_link"
    /\ calls[p].pc = "insert"
    /\ InsertRows(calls[p].id,
                  [NewRow(calls[p].content, calls[p].timestamp, calls[p].linked) EXCEPT
                      !.emotion = calls[p].emotion,
                      !.importance = calls[p].importance,
                      !.category = calls[p].category])
    /\ calls' = [calls EXCEPT ![p].pc = "mark"]
    /\ UNCHANGED <<db, hopfield_beta, coactivation, episodes, index, last, next_id, next_ep, clock>>

\* store.py:922-927  mark_dirty; with nothing to link the call returns
SwalMark(p) ==
    /\ calls[p].op = "save_with_auto_link"
    /\ calls[p].pc = "mark"
    /\ bm25_dirty' = TRUE
    /\ IF calls[p].linked = <<>>
         THEN Finish(p, [op |-> "save_with_auto_link", id |-> calls[p].id,
                         requested |-> calls[p].requested,
                         importance |-> calls[p].importance])
         ELSE /\ calls' = [calls EXCEPT ![p].pc = "link"]
              /\ last' = last
    /\ UNCHANGED <<db, hopfield_beta, store, bm25_doc_ids, next_id, next_ep, clock>>

\* store.py:936-942  one side of the link: append other_id unless present
LinkOneSide(mems, mem_id, other_id) ==
    IF mem_id \notin DOMAIN mems \/ other_id \in Range(mems[mem_id].linked_ids)
    THEN mems
    ELSE [mems EXCEPT ![mem_id].linked_ids = Append(@, other_id)]

\* store.py:931-945  _add_bidirectional_link: both sides, one commit
AddBidirectionalLinkOneWay(mems, source_id, target_id) ==
    LinkOneSide(mems, source_id, target_id)

AddBidirectionalLink(mems, source_id, target_id) ==
    LinkOneSide(LinkOneSide(mems, source_id, target_id), target_id, source_id)

\* store.py:924-927  the next target of the loop; after the last one, return
SwalLink(p) ==
    LET c == calls[p]
    IN  /\ c.op = "save_with_auto_link"
        /\ c.pc = "link"
        /\ memories' = AddBidirectionalLink(memories, c.id, Head(c.linked))
        /\ IF Tail(c.linked) = <<>>
             THEN Finish(p, [op |-> "save_with_auto_link", id |-> c.id,
                             requested |-> c.requested,
                             importance |-> c.importance])
             ELSE /\ calls' = [calls EXCEPT ![p].linked = Tail(c.linked)]
                  /\ last' = last
        /\ UNCHANGED <<db, hopfield_beta, rowids, embeddings, coactivation, episodes, index,
                       next_id, next_ep, clock>>

\* ----- get_linked_memories ---------------------------------------------------
\* store.py:966-968  the linked ids of one memory that are not yet visited
RECURSIVE Unvisited(_, _)
Unvisited(ids, visited) ==
    IF ids = <<>> THEN <<>>
    ELSE IF Head(ids) \in visited THEN Unvisited(Tail(ids), visited)
         ELSE <<Head(ids)>> \o Unvisited(Tail(ids), visited)

\* store.py:957-968  one level: st is [visited, result, next_ids]
RECURSIVE LinkedLevel(_, _, _)
LinkedLevel(st, current_ids, memory_id) ==
    IF current_ids = <<>> THEN st
    ELSE LET mem_id == Head(current_ids)
         IN  IF mem_id \in st.visited
             THEN LinkedLevel(st, Tail(current_ids), memory_id)
             ELSE LET seen == [st EXCEPT !.visited = @ \cup {mem_id}]
                  IN  IF mem_id \notin Stored
                      THEN LinkedLevel(seen, Tail(current_ids), memory_id)
                      ELSE LinkedLevel(
                               [seen EXCEPT
                                  !.result = IF mem_id # memory_id
                                             THEN Append(@, mem_id) ELSE @,
                                  !.next_ids = @ \o Unvisited(memories[mem_id].linked_ids,
                                                              seen.visited)],
                               Tail(current_ids), memory_id)

\* store.py:955-971  for _ in range(depth), stopping on an empty level
RECURSIVE LinkedLevels(_, _, _, _)
LinkedLevels(st, current_ids, memory_id, rounds) ==
    IF rounds = 0 THEN st.result
    ELSE LET after == LinkedLevel([st EXCEPT !.next_ids = <<>>], current_ids, memory_id)
         IN  IF after.next_ids = <<>> THEN after.result
             ELSE LinkedLevels(after, after.next_ids, memory_id, rounds - 1)

\* store.py:949-973  get_linked_memories: the memory ids returned, in order
LinkedMemories(memory_id, depth) ==
    LinkedLevels([visited |-> {}, result |-> <<>>, next_ids |-> <<>>],
                 <<memory_id>>, memory_id, ClampDepth(depth))

GetLinkedMemories(p, memory_id, depth) ==
    /\ IdleP(p)
    /\ last' = [op |-> "get_linked_memories", memory_id |-> memory_id,
                depth |-> depth, result |-> LinkedMemories(memory_id, depth)]
    /\ UNCHANGED <<db, hopfield_beta, store, index, calls, next_id, next_ep, clock>>

\* ----- EpisodeManager.create_episode ------------------------------------------
\* store.py:342-353  the rows whose id is among memory_ids, in table order
RECURSIVE FetchByIds(_, _)
FetchByIds(rows, memory_ids) ==
    IF rows = <<>> THEN <<>>
    ELSE IF Head(rows) \in Range(memory_ids)
         THEN <<Head(rows)>> \o FetchByIds(Tail(rows), memory_ids)
         ELSE FetchByIds(Tail(rows), memory_ids)

\* episode.py:40  memories.sort(key=timestamp): stable insertion by timestamp
RECURSIVE SortByTimestamp(_, _)
SortByTimestamp(ids, acc) ==
    IF ids = <<>> THEN acc
    ELSE LET x == Head(ids)
             k == Cardinality({i \in 1..Len(acc) :
                     memories[acc[i]].timestamp <= memories[x].timestamp})
         IN  SortByTimestamp(Tail(ids),
                             SubSeq(acc, 1, k) \o <<x>> \o SubSeq(acc, k + 1, Len(acc)))

\* episode.py:32-60  argument checks, get_by_ids, the Episode object
CeStart(p, memory_ids) ==
    /\ IdleP(p)
    /\ next_ep <= MaxEp
    /\ LET found == SortByTimestamp(FetchByIds(rowids, memory_ids), <<>>)
       IN  IF memory_ids = <<>> \/ found = <<>>
           THEN /\ Finish(p, [op |-> "create_episode", error |-> "ValueError"])
                /\ next_ep' = next_ep
           ELSE /\ calls' = [calls EXCEPT ![p] =
                               [op |-> "create_episode", pc |-> "save_episode",
                                id |-> next_ep, memory_ids |-> found,
                                todo |-> found]]
                /\ next_ep' = next_ep + 1
                /\ last' = last
    /\ UNCHANGED <<db, hopfield_beta, store, index, next_id, clock>>

\* episode.py:62, store.py:1106-1131  save_episode: INSERT INTO episodes, commit
CeSave(p) ==
    /\ calls[p].op = "create_episode"
    /\ calls[p].pc = "save_episode"
    /\ episodes' = [e \in DOMAIN episodes \cup {calls[p].id} |->
                      IF e = calls[p].id THEN [memory_ids |-> calls[p].memory_ids]
                      ELSE episodes[e]]
    /\ calls' = [calls EXCEPT ![p].pc = "update"]
    /\ UNCHANGED <<db, hopfield_beta, memories, rowids, embeddings, coactivation, index, last,
                   next_id, next_ep, clock>>

\* episode.py:64-67, store.py:737-750  update_episode_id of the next member
CeUpdate(p) ==
    LET c == calls[p]
    IN  /\ c.op = "create_episode"
        /\ c.pc = "update"
        /\ memories' = [memories EXCEPT ![Head(c.todo)].episode_id = {c.id}]
        /\ IF Tail(c.todo) = <<>>
             THEN Finish(p, [op |-> "create_episode", id |-> c.id])
             ELSE /\ calls' = [calls EXCEPT ![p].todo = Tail(c.todo)]
                  /\ last' = last
        /\ UNCHANGED <<db, hopfield_beta, rowids, embeddings, coactivation, episodes, index,
                       next_id, next_ep, clock>>

\* ----- MemoryStore.save_episode called directly --------------------------------
\* store.py:1106-1131  INSERT INTO episodes of an Episode built by the caller
SaveEpisode(p, memory_ids) ==
    /\ IdleP(p)
    /\ next_ep <= MaxEp
    /\ episodes' = [e \in DOMAIN episodes \cup {next_ep} |->
                      IF e = next_ep THEN [memory_ids |-> memory_ids]
                      ELSE episodes[e]]
    /\ next_ep' = next_ep + 1
    /\ last' = [op |-> "save_episode", id |-> next_ep]
    /\ UNCHANGED <<db, hopfield_beta, memories, rowids, embeddings, coactivation, index, calls,
                   next_id, clock>>

\* ----- EpisodeManager.delete_episode ------------------------------------------
\* episode.py:93-94  episode = await self.get_episode_by_id(episode_id)
DeStart(p, episode_id) ==
    /\ IdleP(p)
    /\ calls' = [calls EXCEPT ![p] =
                    LET memory_ids == IF episode_id \in DOMAIN episodes
                                      THEN episodes[episode_id].memory_ids ELSE <<>>
                    IN  [op |-> "delete_episode", pc |-> "update",
                         episode_id |-> episode_id, memory_ids |-> memory_ids,
                         todo |-> memory_ids]]
    /\ UNCHANGED <<db, hopfield_beta, store, index, last, next_id, next_ep, clock>>

\* store.py:737-750  update_episode_id(memory_id, ""): NULL, or ValueError
UpdateEpisodeIdKeep(mems, memory_id) == mems

UpdateEpisodeId(mems, memory_id) ==
    [mems EXCEPT ![memory_id].episode_id = NoEpisode]

\* episode.py:95-99  the next member; a ValueError of a missing row is swallowed
DeUpdate(p) ==
    LET c == calls[p]
    IN  /\ c.op = "delete_episode"
        /\ c.pc = "update"
        /\ c.todo # <<>>
        /\ memories' = IF Head(c.todo) \in Stored
                         THEN UpdateEpisodeId(memories, Head(c.todo))
                         ELSE memories
        /\ calls' = [calls EXCEPT ![p].todo = Tail(c.todo)]
        /\ UNCHANGED <<db, hopfield_beta, rowids, embeddings, coactivation, episodes, index, last,
                       next_id, next_ep, clock>>

\* episode.py:101, store.py:1169-1176  DELETE FROM episodes WHERE id = ?
DeDelete(p) ==
    LET c == calls[p]
    IN  /\ c.op = "delete_episode"
        /\ c.pc = "update"
        /\ c.todo = <<>>
        /\ episodes' = [e \in DOMAIN episodes \ {c.episode_id} |-> episodes[e]]
        /\ Finish(p, [op |-> "delete_episode", episode_id |-> c.episode_id,
                       memory_ids |-> c.memory_ids])
        /\ UNCHANGED <<db, hopfield_beta, memories, rowids, embeddings, coactivation, index,
                       next_id, next_ep, clock>>

\* ----- search_with_scoring: the BM25 rebuild ---------------------------------
\* store.py:526-571  vector search and scoring; a stale index asks for get_all
SwsStart(p, query, n_results) ==
    /\ IdleP(p)
    /\ LET hits == Search(query, Min(n_results * 3, 50))
       IN  IF hits # <<>> /\ bm25_dirty
           THEN /\ calls' = [calls EXCEPT ![p] =
                               [op |-> "search_with_scoring", pc |-> "get_all",
                                hits |-> hits]]
                /\ last' = last
           ELSE Finish(p, [op |-> "search_with_scoring", hits |-> hits])
    /\ UNCHANGED <<db, hopfield_beta, store, index, next_id, next_ep, clock>>

\* store.py:567, 704-716  all_memories = await self.get_all()
SwsGetAll(p) ==
    /\ calls[p].op = "search_with_scoring"
    /\ calls[p].pc = "get_all"
    /\ calls' = [calls EXCEPT ![p] = [@ EXCEPT !.pc = "build"] @@ [all |-> Stored]]
    /\ UNCHANGED <<db, hopfield_beta, store, index, last, next_id, next_ep, clock>>

\* store.py:568-571, bm25.py:60-76  BM25Index.build clears the dirty flag
SwsBuild(p) ==
    /\ calls[p].op = "search_with_scoring"
    /\ calls[p].pc = "build"
    /\ bm25_doc_ids' = calls[p].all
    /\ bm25_dirty' = FALSE
    /\ Finish(p, [op |-> "search_with_scoring", hits |-> calls[p].hits])
    /\ UNCHANGED <<db, hopfield_beta, store, next_id, next_ep, clock>>

\* ----- cancellation -----------------------------------------------------------
\* store.py:894-925, episode.py:62-65  CancelledError (or an error of the step)
\* raised at the await the coroutine is suspended in; nothing is rolled back
Cancel(p) ==
    /\ calls[p].op \in {"save", "save_with_auto_link", "create_episode"}
    /\ Finish(p, [op |-> calls[p].op, error |-> "cancelled", id |-> calls[p].id])
    /\ UNCHANGED <<db, hopfield_beta, store, index, next_id, next_ep, clock>>

\* ----- scoring, search_with_scoring, recall, recall_with_chain ---------------
\* scores are fixed-point: 1.0 is ScoreOne, a semantic distance of Scale is 1.0
ScoreOne == 1000 * Scale

\* store.py:126-142  2 ** (-age / half_life), age counted in half-lives
TimeDecay(timestamp, now) ==
    IF now < timestamp THEN ScoreOne
    ELSE Max(0, Min(ScoreOne, ScoreOne \div (2 ^ (now - timestamp))))

\* store.py:114-123, 145-146  EMOTION_BOOST_MAP.get(emotion, 0.0)
EmotionBoost(emotion) ==
    CASE emotion = "excited" -> (40 * ScoreOne) \div 100
      [] emotion = "surprised" -> (35 * ScoreOne) \div 100
      [] emotion = "moved" -> (30 * ScoreOne) \div 100
      [] emotion = "sad" -> (25 * ScoreOne) \div 100
      [] emotion = "happy" -> (20 * ScoreOne) \div 100
      [] emotion = "nostalgic" -> (15 * ScoreOne) \div 100
      [] emotion = "curious" -> (10 * ScoreOne) \div 100
      [] OTHER -> 0

\* store.py:149-151  (clamp(importance, 1, 5) - 1) / 10
ImportanceBoost(importance) ==
    ((Max(1, Min(5, importance)) - 1) * ScoreOne) \div 10

\* store.py:154-167  distance + 0.3 * (1 - decay) - 0.2 * emotion - 0.2 * importance
FinalScore(semantic_distance, time_decay, emotion_boost, importance_boost) ==
    Max(0, semantic_distance + (3 * (ScoreOne - time_decay)) \div 10
             - ((2 * emotion_boost) \div 10 + (2 * importance_boost) \div 10))

\* store.py:536-552  the score of one hit of the vector search
ScoreOf(id, query, now) ==
    FinalScore(Distance(query, memories[id].content) * 1000,
               TimeDecay(memories[id].timestamp, now),
               EmotionBoost(memories[id].emotion),
               ImportanceBoost(memories[id].importance))

\* bm25.py:86-107  normalised BM25 score of one memory: an abstract content is
\* one token, so the documents holding the query token score the maximum
Bm25Score(doc_ids, id, query) ==
    IF id \in doc_ids /\ memories[id].content = query
    THEN ScoreOne ELSE 0

\* store.py:572-594  boost = 0.2 * bm25 (+ 0.15 when the readings are equal)
RerankBoost(doc_ids, id, query, reading) ==
    (2 * Bm25Score(doc_ids, id, query)) \div 10
      + (IF reading /\ memories[id].content = query THEN (15 * ScoreOne) \div 100 ELSE 0)

\* list.sort(key=...): stable insertion of <<id, key>> pairs by ascending key
RECURSIVE SortByKey(_, _)
SortByKey(pairs, acc) ==
    IF pairs = <<>> THEN acc
    ELSE LET x == Head(pairs)
             k == Cardinality({i \in 1..Len(acc) : acc[i][2] <= x[2]})
         IN  SortByKey(Tail(pairs),
                       SubSeq(acc, 1, k) \o <<x>> \o SubSeq(acc, k + 1, Len(acc)))

\* store.py:513-597  search_with_scoring as <<id, final_score>> pairs; doc_ids is
\* the BM25 index the re-ranking reads
ScoredSearch(query, n_results, now, doc_ids, reading) ==
    LET hits == Search(query, Min(n_results * 3, 50))
        scored == [i \in 1..Len(hits) |->
                     <<hits[i], ScoreOf(hits[i], query, now)
                                  - RerankBoost(doc_ids, hits[i], query, reading)>>]
    IN  Take(SortByKey(scored, <<>>), n_results)

\* store.py:564-571  the index after the rebuild a search with hits performs
IndexAfterSearch(query) ==
    IF rowids # <<>> /\ bm25_dirty THEN Stored ELSE bm25_doc_ids

\* store.py:618-619  h_score = hopfield_scores.get(id, 0.0); max(0.0, h_score) * 0.15
HopfieldBoostSigned(hopfield, id) ==
    (15 * (IF id \in DOMAIN hopfield THEN hopfield[id] ELSE 0)) \div 100

HopfieldBoost(hopfield, id) ==
    (15 * Max(0, IF id \in DOMAIN hopfield THEN hopfield[id] ELSE 0)) \div 100

\* store.py:603-606  pool_size and the scored pool of recall
PoolSize(n_results) == Min(n_results * 3, 20)
ScoredPool(context, n_results, now, reading) ==
    ScoredSearch(context, PoolSize(n_results), now, IndexAfterSearch(context), reading)

\* store.py:601-627  recall: hopfield maps memory ids to Hopfield scores; it is
\* empty when hopfield_recall raised or returned nothing
Recall(context, n_results, now, reading, hopfield) ==
    LET scored == ScoredPool(context, n_results, now, reading)
        blended == [i \in 1..Len(scored) |->
                      <<scored[i][1],
                        scored[i][2] - HopfieldBoost(hopfield, scored[i][1])>>]
    IN  Take(SortByKey(blended, <<>>), n_results)

\* store.py:601-627  one call of recall; the search inside rebuilds a stale index
RecallCall(p, context, n_results, reading, hopfield) ==
    /\ IdleP(p)
    /\ bm25_doc_ids' = IndexAfterSearch(context)
    /\ bm25_dirty' = (bm25_dirty /\ rowids = <<>>)
    /\ last' = [op |-> "recall", context |-> context, n_results |-> n_results,
                hopfield_scores |-> hopfield,
                scored_results |-> ScoredPool(context, n_results, clock, reading),
                result |-> Recall(context, n_results, clock, reading, hopfield)]
    /\ UNCHANGED <<db, hopfield_beta, store, calls, next_id, next_ep, clock>>

\* store.py:992  distance=999.0 of a linked result
SentinelDistance == 999 * ScoreOne

\* store.py:988-989  if mem.id not in seen_ids
FreshLinkedAll(linked, seen_ids) == linked

FreshLinked(linked, seen_ids) == Unvisited(linked, seen_ids)

\* store.py:985-991  the linked memories of the hits, each id once
RECURSIVE ChainOfHits(_, _, _, _)
ChainOfHits(hits, chain_depth, seen_ids, linked_memories) ==
    IF hits = <<>> THEN linked_memories
    ELSE LET fresh == FreshLinked(LinkedMemories(Head(hits)[1], chain_depth), seen_ids)
         IN  ChainOfHits(Tail(hits), chain_depth, seen_ids \cup Range(fresh),
                         linked_memories \o fresh)

\* store.py:977-993  recall_with_chain; the search inside rebuilds a stale index
RecallWithChain(p, context, n_results, chain_depth, reading, hopfield) ==
    LET main_results == Recall(context, n_results, clock, reading, hopfield)
        linked == ChainOfHits(main_results, chain_depth,
                              {main_results[i][1] : i \in 1..Len(main_results)}, <<>>)
    IN  /\ IdleP(p)
        /\ bm25_doc_ids' = IndexAfterSearch(context)
        /\ bm25_dirty' = (bm25_dirty /\ rowids = <<>>)
        /\ last' = [op |-> "recall_with_chain", n_results |-> n_results,
                    main_results |-> main_results,
                    result |-> main_results \o
                               [i \in 1..Len(linked) |-> <<linked[i], SentinelDistance>>]]
        /\ UNCHANGED <<db, hopfield_beta, store, calls, next_id, next_ep, clock>>

\* ----- recall_divergent -------------------------------------------------------
\* association.py:48-54  the parameters of AssociationEngine.spread
SpreadParameters == {"seeds", "fetch_memory_by_id", "max_branches", "max_depth"}

\* store.py:1203-1208  the keywords recall_divergent passes to spread
DivergentSpreadKeywords == {"seeds", "fetch_memories_by_ids", "max_branches", "max_depth"}

\* a call by keyword binds when every keyword names a parameter and every
\* parameter (none has a default) is passed; otherwise it raises TypeError
CallBinds(keywords, parameters) == keywords = parameters

\* store.py:1190-1191  n_results and the seed pool size
ClampResults(n_results) == Max(1, Min(20, n_results))
SeedSize(n_results) == Max(3, Min(25, n_results * 3))

\* store.py:1180-1279  recall_divergent: the seed search (which rebuilds a stale
\* index), the early return on no seeds, then the call of spread
RecallDivergent(p, context, n_results, include_diagnostics, reading) ==
    LET n == ClampResults(n_results)
        seeds == ScoredSearch(context, SeedSize(n), clock, IndexAfterSearch(context),
                              reading)
    IN  /\ IdleP(p)
        /\ bm25_doc_ids' = IndexAfterSearch(context)
        /\ bm25_dirty' = (bm25_dirty /\ rowids = <<>>)
        /\ last' = [op |-> "recall_divergent", context |-> context,
                    n_results |-> n_results,
                    include_diagnostics |-> include_diagnostics,
                    count |-> Len(rowids), seeds |-> seeds,
                    error |-> IF seeds = <<>>
                                   \/ CallBinds(DivergentSpreadKeywords, SpreadParameters)
                              THEN "none" ELSE "TypeError",
                    results |-> <<>>, diagnostics |-> <<>>]
        /\ UNCHANGED <<db, hopfield_beta, store, calls, next_id, next_ep, clock>>

\* datetime.now() moves on between calls
Tick ==
    /\ clock < MaxClock
    /\ clock' = clock + 1
    /\ UNCHANGED <<db, hopfield_beta, store, index, calls, last, next_id, next_ep>>

\* ----- bump_coactivation ----------------------------------------------------
\* store.py:808-811  source = await self.get_by_id(source_id)
BumpStart(p, s, t, delta) ==
    /\ IdleP(p)
    /\ calls' = [calls EXCEPT ![p] =
                    [op |-> "bump_coactivation", pc |-> "target", source_id |-> s,
                     target_id |-> t, delta |-> delta, source |-> s \in Stored]]
    /\ UNCHANGED <<db, hopfield_beta, store, index, last, next_id, next_ep, clock>>

\* store.py:813  if source is None or target is None: return False
BothFoundSourceOnly(source, target) == source

BothFound(source, target) == source /\ target

\* store.py:812-816  target = await self.get_by_id(target_id); missing -> False
BumpCheck(p) ==
    /\ calls[p].op = "bump_coactivation"
    /\ calls[p].pc = "target"
    /\ IF BothFound(calls[p].source, calls[p].target_id \in Stored)
         THEN /\ calls' = [calls EXCEPT ![p].pc = "bump",
                                        ![p].delta = Clamp01(calls[p].delta)]
              /\ last' = last
         ELSE Finish(p, [op |-> "bump_coactivation", result |-> FALSE])
    /\ UNCHANGED <<db, hopfield_beta, store, index, next_id, next_ep, clock>>

\* store.py:820-825  current weight of one direction, bumped and clamped
Weight(co, s, t) == IF <<s, t>> \in DOMAIN co THEN co[<<s, t>>] ELSE 0

\* store.py:826-831  INSERT ... ON CONFLICT DO UPDATE of one direction
Upsert(co, s, t, w) ==
    [k \in DOMAIN co \cup {<<s, t>>} |-> IF k = <<s, t>> THEN w ELSE co[k]]

\* store.py:818-832  _bump: both directions, then one commit
BumpRowsOneWay(co, s, t, delta) ==
    Upsert(co, s, t, Clamp01(Weight(co, s, t) + delta))

BumpRows(co, s, t, delta) ==
    LET one == Upsert(co, s, t, Clamp01(Weight(co, s, t) + delta))
    IN  Upsert(one, t, s, Clamp01(Weight(one, t, s) + delta))

\* store.py:834-835  await asyncio.to_thread(_bump); return True
Bump(p) ==
    /\ calls[p].op = "bump_coactivation"
    /\ calls[p].pc = "bump"
    /\ coactivation' = BumpRows(coactivation, calls[p].source_id,
                                calls[p].target_id, calls[p].delta)
    /\ Finish(p, [op |-> "bump_coactivation", result |-> TRUE])
    /\ UNCHANGED <<db, hopfield_beta, memories, rowids, embeddings, episodes, index,
                   next_id, next_ep, clock>>

\* ----- add_causal_link -------------------------------------------------------
\* store.py:1018-1020  an entry with the same target and type is already there
HasLinkByNote(links, t, ty, note) ==
    \E i \in 1..Len(links) : links[i].target_id = t /\ links[i].note = note

HasLink(links, t, ty, note) ==
    \E i \in 1..Len(links) : links[i].target_id = t /\ links[i].link_type = ty

\* store.py:1004-1006  source_memory = await self.get_by_id(source_id)
AclStart(p, s, t, ty, note) ==
    /\ IdleP(p)
    /\ IF s \in Stored
         THEN /\ calls' = [calls EXCEPT ![p] =
                    [op |-> "add_causal_link", pc |-> "target", source_id |-> s,
                     target_id |-> t, link_type |-> ty, note |-> note,
                     links |-> memories[s].links]]
              /\ last' = last
         ELSE Finish(p, [op |-> "add_causal_link", error |-> "source not found",
                         source_id |-> s])
    /\ UNCHANGED <<db, hopfield_beta, store, index, next_id, next_ep, clock>>

\* store.py:1007-1009  target_memory is None
TargetMissingNever(t) == FALSE

TargetMissing(t) == t \notin Stored

\* store.py:1007-1022  target lookup, new MemoryLink stamped now(), duplicate check
AclTarget(p) ==
    LET c == calls[p]
        new_link == [target_id |-> c.target_id, link_type |-> c.link_type,
                     created_at |-> clock, note |-> c.note]
    IN  /\ c.op = "add_causal_link"
        /\ c.pc = "target"
        /\ clock < MaxClock
        /\ IF TargetMissing(c.target_id)
             THEN /\ Finish(p, [op |-> "add_causal_link", error |-> "target not found"])
                  /\ clock' = clock
             ELSE IF HasLink(c.links, c.target_id, c.link_type, c.note)
             THEN /\ Finish(p, [op |-> "add_causal_link", result |-> "duplicate"])
                  /\ clock' = clock + 1
             ELSE /\ calls' = [calls EXCEPT ![p].pc = "write",
                                            ![p].links = Append(c.links, new_link)]
                  /\ last' = last
                  /\ clock' = clock + 1
        /\ UNCHANGED <<db, hopfield_beta, store, index, next_id, next_ep>>

\* store.py:754-779  update_memory_fields: UPDATE memories SET links = ? WHERE id = ?
AclWrite(p) ==
    /\ calls[p].op = "add_causal_link"
    /\ calls[p].pc = "write"
    /\ memories' = [memories EXCEPT ![calls[p].source_id].links = calls[p].links]
    /\ Finish(p, [op |-> "add_causal_link", result |-> "added"])
    /\ UNCHANGED <<db, hopfield_beta, rowids, embeddings, coactivation, episodes, index,
                   next_id, next_ep, clock>>

\* ----- get_causal_chain -------------------------------------------------------
\* store.py:1034-1039  the link types a direction follows
TargetLinkTypesAny(direction) == {"caused_by", "leads_to"}

TargetLinkTypes(direction) ==
    IF direction = "backward" THEN {"caused_by"}
    ELSE IF direction = "forward" THEN {"leads_to"}
    ELSE {}

\* store.py:1038-1039  else: raise ValueError("Invalid direction")
ValidDirection(direction) == direction \in {"backward", "forward"}

\* store.py:1057  target and link.target_id not in visited
ChainFollowsAlways(visited, id) == id \in Stored

ChainFollowsUnfetched(visited, id) == id \notin visited

ChainFollows(visited, id) == id \in Stored /\ id \notin visited

\* store.py:1054-1059  the links of one memory: st is [visited, result, next_ids]
RECURSIVE ChainLinks(_, _, _)
ChainLinks(st, links, types) ==
    IF links = <<>> THEN st
    ELSE LET link == Head(links)
         IN  IF link.link_type \in types /\ ChainFollows(st.visited, link.target_id)
             THEN ChainLinks([st EXCEPT !.result = Append(@, <<link.target_id, link.link_type>>),
                                        !.next_ids = Append(@, link.target_id)],
                             Tail(links), types)
             ELSE ChainLinks(st, Tail(links), types)

\* store.py:1047-1059  one level: every id of current_ids in order
RECURSIVE ChainLevel(_, _, _)
ChainLevel(st, current_ids, types) ==
    IF current_ids = <<>> THEN st
    ELSE LET mem_id == Head(current_ids)
         IN  IF mem_id \in st.visited
             THEN ChainLevel(st, Tail(current_ids), types)
             ELSE LET seen == [st EXCEPT !.visited = @ \cup {mem_id}]
                  IN  IF mem_id \notin Stored
                      THEN ChainLevel(seen, Tail(current_ids), types)
                      ELSE ChainLevel(ChainLinks(seen, memories[mem_id].links, types),
                                      Tail(current_ids), types)

\* store.py:1045-1062  for _ in range(max_depth), stopping on an empty level
RECURSIVE ChainLevels(_, _, _, _)
ChainLevels(st, current_ids, types, rounds) ==
    IF rounds = 0 THEN st.result
    ELSE LET after == ChainLevel([st EXCEPT !.next_ids = <<>>], current_ids, types)
         IN  IF after.next_ids = <<>> THEN after.result
             ELSE ChainLevels(after, after.next_ids, types, rounds - 1)

\* store.py:1027-1064  get_causal_chain: the (memory id, link type) pairs returned
CausalChain(memory_id, direction, max_depth) ==
    ChainLevels([visited |-> {}, result |-> <<>>, next_ids |-> <<>>],
                <<memory_id>>, TargetLinkTypes(direction), ClampDepth(max_depth))

GetCausalChain(p, memory_id, direction, max_depth) ==
    /\ IdleP(p)
    /\ last' = IF ValidDirection(direction)
               THEN [op |-> "get_causal_chain", memory_id |-> memory_id,
                     direction |-> direction, max_depth |-> max_depth,
                     result |-> CausalChain(memory_id, direction, max_depth)]
               ELSE [op |-> "get_causal_chain", memory_id |-> memory_id,
                     direction |-> direction, max_depth |-> max_depth,
                     error |-> "invalid direction"]
    /\ UNCHANGED <<db, hopfield_beta, store, index, calls, next_id, next_ep, clock>>

\* ----- AssociationEngine ------------------------------------------------------
\* neighbour weights in hundredths (association.py:102-113)
LegacyWeight == 100
SimilarWeight == 100
CausalWeight == 85
OtherWeight == 80

RECURSIVE SetToSeq(_)
SetToSeq(S) ==
    IF S = {} THEN <<>>
    ELSE LET x == CHOOSE y \in S : \A z \in S : y <= z
         IN  <<x>> \o SetToSeq(S \ {x})

\* store.py:326-331  _get_coactivation: the rows whose source is the memory
CoactivationOf(id) ==
    LET targets == SetToSeq({k[2] : k \in {q \in DOMAIN coactivation : q[1] = id}})
    IN  [i \in 1..Len(targets) |-> <<targets[i], coactivation[<<id, targets[i]>>]>>]

\* association.py:104-110  weight of a typed link
LinkWeight(ty) ==
    IF ty = "similar" THEN SimilarWeight
    ELSE IF ty \in {"related", "caused_by", "leads_to"} THEN CausalWeight
    ELSE OtherWeight

\* association.py:101-113  weighted_ids in the order the code appends them
WeightedIds(id) ==
    LET m == memories[id]
        co == CoactivationOf(id)
    IN  [i \in 1..Len(m.linked_ids) |-> <<m.linked_ids[i], LegacyWeight>>]
        \o [i \in 1..Len(m.links) |->
                <<m.links[i].target_id, LinkWeight(m.links[i].link_type)>>]
        \o [i \in 1..Len(co) |->
                <<co[i][1], (Clamp01(co[i][2]) * LegacyWeight) \div WeightOne>>]

\* association.py:115-118  dedup: first-seen order of the ids, largest weight of each
RECURSIVE DedupKeepFirst(_, _)
DedupKeepFirst(w, acc) ==
    IF w = <<>> THEN acc
    ELSE IF \E i \in 1..Len(acc) : acc[i][1] = w[1][1]
         THEN DedupKeepFirst(Tail(w), acc)
         ELSE DedupKeepFirst(Tail(w), Append(acc, w[1]))

RECURSIVE Dedup(_, _)
Dedup(w, acc) ==
    IF w = <<>> THEN acc
    ELSE LET hit == {i \in 1..Len(acc) : acc[i][1] = w[1][1]}
         IN  IF hit = {} THEN Dedup(Tail(w), Append(acc, w[1]))
             ELSE LET i == CHOOSE j \in hit : TRUE
                  IN  Dedup(Tail(w),
                            IF acc[i][2] < w[1][2] THEN [acc EXCEPT ![i] = w[1]] ELSE acc)

\* association.py:120  sorted(..., key=weight, reverse=True): stable, descending
RECURSIVE SortDesc(_, _)
SortDesc(w, acc) ==
    IF w = <<>> THEN acc
    ELSE LET k == Cardinality({i \in 1..Len(acc) : acc[i][2] >= w[1][2]})
         IN  SortDesc(Tail(w), SubSeq(acc, 1, k) \o <<w[1]>> \o SubSeq(acc, k + 1, Len(acc)))

\* association.py:99-121  _neighbor_candidates
NeighborCandidates(id) ==
    LET ordered == SortDesc(Dedup(WeightedIds(id), <<>>), <<>>)
    IN  [i \in 1..Len(ordered) |-> ordered[i][1]]

\* association.py:67  a node at depth max_depth is popped and not expanded
DepthExhaustedLate(depth, max_depth) == depth > max_depth

DepthExhausted(depth, max_depth) == depth >= max_depth

\* association.py:82  visited.add(neighbor_id)
MarkVisitedForgets(visited, id) == visited

MarkVisited(visited, id) == visited \cup {id}

\* association.py:74-84  the loop over the neighbours of one node
RECURSIVE SpreadNeighbors(_, _, _)
SpreadNeighbors(st, neighbors, depth) ==
    IF neighbors = <<>> THEN st
    ELSE LET n == Head(neighbors)
             edge == [st EXCEPT !.traversed_edges = @ + 1]
         IN  IF n \in st.visited
             THEN SpreadNeighbors(edge, Tail(neighbors), depth)
             ELSE LET asked == [edge EXCEPT !.fetch_calls = Append(@, <<n>>)]
                  IN  IF n \notin Stored
                      THEN SpreadNeighbors(asked, Tail(neighbors), depth)
                      ELSE SpreadNeighbors(
                               [asked EXCEPT !.visited = MarkVisited(@, n),
                                             !.expanded = Append(@, n),
                                             !.frontier = Append(@, <<n, depth + 1>>)],
                               Tail(neighbors), depth)

\* association.py:65-84  while frontier: pop(0), expand unless too deep
RECURSIVE SpreadLoop(_, _, _)
SpreadLoop(st, max_branches, max_depth) ==
    IF st.frontier = <<>> THEN st
    ELSE LET current == Head(st.frontier)[1]
             depth == Head(st.frontier)[2]
             popped == [st EXCEPT !.frontier = Tail(@)]
         IN  IF DepthExhausted(depth, max_depth)
             THEN SpreadLoop(popped, max_branches, max_depth)
             ELSE SpreadLoop(
                      SpreadNeighbors(popped,
                                      Take(NeighborCandidates(current), max_branches),
                                      depth),
                      max_branches, max_depth)

\* association.py:48-97  AssociationEngine.spread; fetch_calls lists the id lists
\* handed to the fetch function, one entry per call
SpreadResult(seeds, max_branches, max_depth) ==
    IF seeds = <<>>
    THEN [frontier |-> <<>>, visited |-> {}, expanded |-> <<>>,
          fetch_calls |-> <<>>, traversed_edges |-> 0]
    ELSE SpreadLoop([frontier |-> [i \in 1..Len(seeds) |-> <<seeds[i], 0>>],
                     visited |-> Range(seeds), expanded |-> <<>>,
                     fetch_calls |-> <<>>, traversed_edges |-> 0],
                    max_branches, max_depth)

\* store.py:1203-1210  recall_divergent hands seeds and limits to spread
Spread(seeds, max_branches, max_depth) ==
    LET r == SpreadResult(seeds, max_branches, max_depth)
    IN  /\ last' = [op |-> "spread", seeds |-> seeds, max_branches |-> max_branches,
                    max_depth |-> max_depth, expanded |-> r.expanded,
                    fetch_calls |-> r.fetch_calls]
        /\ UNCHANGED <<db, hopfield_beta, store, index, calls, next_id, next_ep, clock>>

\* ----- specification: saves and coactivation bumps --------------------------
NextCoact ==
    \/ (next_id <= CoactMem /\ SaveStart("c1", 1))
    \/ \E p \in Procs : EncodeOk(p)
    \/ \E p \in Procs : SaveInsert(p)
    \/ \E p \in Procs : SaveFinish(p)
    \/ \E p \in Procs, s \in 1..(CoactMem + 1), d \in Deltas :
          \E t \in 1..(CoactMem + 1) \ {s} : BumpStart(p, s, t, d)
    \/ \E p \in Procs : BumpCheck(p)
    \/ \E p \in Procs : Bump(p)

SpecCoact == Init /\ [][NextCoact]_vars

\* C1: after any sequence of bump_coactivation calls the coactivation rows of
\* two distinct memories exist in both directions or in neither, carry the
\* same weight, and every weight lies in [0, 1].
CoactivationSymmetric ==
    /\ \A k \in DOMAIN coactivation : coactivation[k] \in Weights
    /\ \A a \in Ids, b \in Ids :
          a # b =>
            /\ (<<a, b>> \in DOMAIN coactivation) <=> (<<b, a>> \in DOMAIN coactivation)
            /\ Weight(coactivation, a, b) = Weight(coactivation, b, a)

CoactivationBumped ==
    /\ last.op = "bump_coactivation"
    /\ last.result
    /\ \E a \in Ids, b \in Ids :
          /\ a # b
          /\ <<a, b>> \in DOMAIN coactivation
          /\ coactivation[<<a, b>>] \notin {0, WeightOne}

\* ----- specification: saves and typed links, two callers --------------------
LinkTypes == {"caused_by", "related"}
NoteOf == [p \in Procs |-> IF p = "c1" THEN "n1" ELSE "n2"]

NextLinks ==
    \/ (next_id <= LinkMem /\ SaveStart("c1", 1))
    \/ \E p \in Procs : EncodeOk(p)
    \/ \E p \in Procs : SaveInsert(p)
    \/ \E p \in Procs : SaveFinish(p)
    \/ \E p \in Procs, t \in 1..(LinkMem + 1), ty \in LinkTypes :
          AclStart(p, 1, t, ty, NoteOf[p])
    \/ \E p \in Procs : (clock < LinkClock /\ AclTarget(p))
    \/ \E p \in Procs : AclWrite(p)

SpecLinks == Init /\ [][NextLinks]_vars

NoDuplicateLinks ==
    \A m \in Stored :
        \A i \in 1..Len(memories[m].links), j \in 1..Len(memories[m].links) :
            (/\ memories[m].links[i].target_id = memories[m].links[j].target_id
             /\ memories[m].links[i].link_type = memories[m].links[j].link_type)
            => i = j

\* a call whose source already held the (target, type) link ends without a write
DuplicateIsNoOp ==
    \A p \in Procs :
        (/\ calls[p].op = "add_causal_link"
         /\ calls[p].pc = "target"
         /\ calls[p].target_id \in Stored
         /\ \E i \in 1..Len(calls[p].links) :
               /\ calls[p].links[i].target_id = calls[p].target_id
               /\ calls[p].links[i].link_type = calls[p].link_type
         /\ calls'[p] # calls[p])
        => /\ memories' = memories
           /\ calls'[p] = Idle

\* C2: add_causal_link on a source that already holds a link with the same
\* target and type writes nothing (entries, created_at and note stay), and no
\* links list ever holds two entries with the same (target_id, link_type).
CausalLinkIdempotent == []NoDuplicateLinks /\ [][DuplicateIsNoOp]_vars

CausalLinkDuplicateSeen ==
    /\ last.op = "add_causal_link"
    /\ "result" \in DOMAIN last
    /\ last.result = "duplicate"
    /\ \E m \in Stored : Len(memories[m].links) = 1

\* ----- specification: spread over every small link graph --------------------
SpreadIds == 1..SpreadMem
\* linked_ids may name stored memories, the memory itself, or an id not stored
LinkedIdLists ==
    {<<>>} \cup {<<a>> : a \in 1..(SpreadMem + 1)}
           \cup {<<q[1], q[2]>> : q \in {r \in (1..(SpreadMem + 1)) \X (1..(SpreadMem + 1)) :
                                            r[1] < r[2]}}
SeedLists == {<<>>, <<1>>, <<1, 2>>}

InitSpread ==
    /\ \E g \in [SpreadIds -> LinkedIdLists] :
          memories = [id \in SpreadIds |-> NewRow(1, 0, g[id])]
    /\ rowids = SetToSeq(SpreadIds)
    /\ embeddings = SpreadIds
    /\ coactivation = <<>>
    /\ episodes = <<>>
    /\ bm25_dirty = TRUE
    /\ bm25_doc_ids = {}
    /\ calls = [p \in Procs |-> Idle]
    /\ last = [op |-> "init"]
    /\ next_id = SpreadMem + 1
    /\ next_ep = 1
    /\ clock = 0
    /\ db = TRUE
    /\ hopfield_beta = ConfiguredBeta

\* spread is a function of its arguments: each behaviour applies it once
NextSpread ==
    \E seeds \in SeedLists, b \in 1..MaxBranches, d \in 1..MaxDepth :
        last.op = "init" /\ Spread(seeds, b, d)

SpecSpread == InitSpread /\ [][NextSpread]_vars

\* C3: spread hands the fetch function one batch per depth level: no call for
\* empty seeds, and never more calls than max_depth.
SpreadFetchesOncePerLevel ==
    last.op = "spread" =>
        /\ (last.seeds = <<>> => last.fetch_calls = <<>>)
        /\ Len(last.fetch_calls) <= last.max_depth

\* C4: within one spread no seed is requested from the fetch function, no
\* stored id is requested twice, and no id is expanded twice.
Count(seq, x) == Cardinality({i \in 1..Len(seq) : seq[i] = x})
RECURSIVE Flatten(_)
Flatten(ss) == IF ss = <<>> THEN <<>> ELSE Head(ss) \o Flatten(Tail(ss))
SpreadVisitsOnce ==
    last.op = "spread" =>
        /\ Range(Flatten(last.fetch_calls)) \cap Range(last.seeds) = {}
        /\ \A id \in Stored : Count(Flatten(last.fetch_calls), id) <= 1
        /\ \A id \in Stored : Count(last.expanded, id) <= 1
        /\ Range(last.expanded) \cap Range(last.seeds) = {}

SpreadSharedNeighbor ==
    /\ last.op = "spread"
    /\ last.seeds = <<1, 2>>
    /\ memories[1].linked_ids = <<1, 3>>
    /\ memories[2].linked_ids = <<1, 3>>
    /\ last.max_branches = 2
    /\ last.max_depth = 1
    /\ last.fetch_calls = <<<<3>>>>
    /\ last.expanded = <<3>>

\* the stored neighbours of a node among its first max_branches candidates
TopNeighbors(id, b) == Range(Take(NeighborCandidates(id), b)) \cap Stored
RECURSIVE Reach(_, _, _)
Reach(S, b, d) ==
    IF d = 0 THEN S
    ELSE Reach(S \cup UNION {TopNeighbors(x, b) : x \in S}, b, d - 1)

\* C5: spread returns exactly the stored memories within max_depth hops of the
\* seeds over each node's top max_branches neighbours, without the seeds.
SpreadReturnsReachable ==
    last.op = "spread" =>
        Range(last.expanded) =
            Reach(Range(last.seeds), last.max_branches, last.max_depth) \ Range(last.seeds)

SpreadChain ==
    /\ last.op = "spread"
    /\ last.seeds = <<1>>
    /\ memories[1].linked_ids = <<2>>
    /\ memories[2].linked_ids = <<3>>
    /\ memories[3].linked_ids = <<>>
    /\ last.max_depth = 2
    /\ last.expanded = <<2, 3>>

\* ----- specification: typed links of one caller and causal chains -----------
ChainIds == 1..ChainMem

\* the store after ChainMem completed saves
InitChain ==
    /\ memories = [id \in ChainIds |-> NewRow(1, 0, <<>>)]
    /\ rowids = SetToSeq(ChainIds)
    /\ embeddings = ChainIds
    /\ coactivation = <<>>
    /\ episodes = <<>>
    /\ bm25_dirty = TRUE
    /\ bm25_doc_ids = {}
    /\ calls = [p \in Procs |-> Idle]
    /\ last = [op |-> "init"]
    /\ next_id = ChainMem + 1
    /\ next_ep = 1
    /\ clock = 0
    /\ db = TRUE
    /\ hopfield_beta = ConfiguredBeta

NextChain ==
    \/ \E s \in ChainIds, t \in ChainIds : AclStart("c1", s, t, "caused_by", "n1")
    \/ (clock < ChainClock /\ AclTarget("c1"))
    \/ AclWrite("c1")
    \/ \E root \in ChainIds, d \in {1, MaxChainDepth} : GetCausalChain("c1", root, "backward", d)

SpecChain == InitChain /\ [][NextChain]_vars

ChainTargets(result) == [i \in 1..Len(result) |-> result[i][1]]
LinkTargets(id) == [i \in 1..Len(memories[id].links) |-> memories[id].links[i].target_id]

\* C6: get_causal_chain returns on every link graph, the root is never part
\* of its own chain, and on A-caused_by->B, B-caused_by->C, B-caused_by->A the
\* backward chain of A with max_depth 5 is [B, C].
CausalChainCycleSafe ==
    last.op = "get_causal_chain" =>
        /\ last.memory_id \notin Range(ChainTargets(last.result))
        /\ (/\ last.memory_id = 1
            /\ last.max_depth = MaxChainDepth
            /\ LinkTargets(1) = <<2>>
            /\ Range(LinkTargets(2)) = {1, 3}
            /\ Len(LinkTargets(2)) = 2
            /\ LinkTargets(3) = <<>>)
           => ChainTargets(last.result) = <<2, 3>>

CausalChainOnCycle ==
    /\ last.op = "get_causal_chain"
    /\ last.memory_id = 1
    /\ last.max_depth = MaxChainDepth
    /\ LinkTargets(1) = <<2>>
    /\ LinkTargets(2) = <<3, 1>>
    /\ LinkTargets(3) = <<>>
    /\ ChainTargets(last.result) = <<2, 3>>

\* ----- one caller: saves, auto-links, episodes, failures ----------------------
WriteMem == 2

LinkThresholds == {0, Scale}
EpisodeMembers == {<<>>, <<1>>, <<1, 2>>}

NextWrites ==
    \/ \E c \in Contents : next_id <= WriteMem /\ SaveStart("c1", c)
    \/ \E c \in Contents, th \in LinkThresholds :
          next_id <= WriteMem /\ SwalStart("c1", c, th, WriteMem)
    \/ EncodeOk("c1")
    \/ EncodeFail("c1")
    \/ SaveInsert("c1")
    \/ SaveFinish("c1")
    \/ SwalInsert("c1")
    \/ SwalMark("c1")
    \/ SwalLink("c1")
    \/ \E ms \in EpisodeMembers : CeStart("c1", ms)
    \/ CeSave("c1")
    \/ CeUpdate("c1")
    \/ SwsStart("c1", 1, 1)
    \/ SwsGetAll("c1")
    \/ SwsBuild("c1")
    \/ Cancel("c1")
    \/ \E root \in 1..WriteMem, depth \in {1, 2} :
          GetLinkedMemories("c1", root, depth)

SpecWrites == Init /\ [][NextWrites]_vars

AllIdle == \A p \in Procs : IdleP(p)
Failed(out, e) == "error" \in DOMAIN out /\ out.error = e

\* the stored ids one hop away from a set of ids over linked_ids
LinkedStep(S) ==
    UNION {Range(memories[m].linked_ids) : m \in S \cap Stored} \cap Stored

RECURSIVE WithinHops(_, _)
WithinHops(S, d) ==
    IF d = 0 THEN {} ELSE LinkedStep(S) \cup WithinHops(LinkedStep(S), d - 1)

\* C7: get_linked_memories(root, depth=d) returns exactly the stored memories
\* reachable from root over linked_ids in 1..d hops, d clamped to [1,5], each
\* once and never the root; depth=1 returns the directly linked memories.
LinkedMemoriesWithinDepth ==
    (AllIdle /\ last.op = "get_linked_memories") =>
        /\ Range(last.result) =
              WithinHops({last.memory_id}, ClampDepth(last.depth)) \ {last.memory_id}
        /\ Len(last.result) = Cardinality(Range(last.result))

\* C9: a save_with_auto_link that was aborted never leaves the new memory
\* stored with a linked id whose own linked_ids lacks the back-reference, and
\* an aborted create_episode never leaves the episode stored with only some of
\* its members carrying its episode_id.
AbortLeavesNoPartialWrite ==
    (AllIdle /\ Failed(last, "cancelled")) =>
        /\ (last.op = "save_with_auto_link" /\ last.id \in Stored) =>
              \A t \in Range(memories[last.id].linked_ids) \cap Stored :
                  last.id \in Range(memories[t].linked_ids)
        /\ (last.op = "create_episode" /\ last.id \in DOMAIN episodes) =>
              \/ \A m \in Range(episodes[last.id].memory_ids) :
                    memories[m].episode_id = {last.id}
              \/ \A m \in Range(episodes[last.id].memory_ids) :
                    memories[m].episode_id # {last.id}

EmbeddingOneToOne ==
    /\ DOMAIN memories = embeddings
    /\ Failed(last, "embedding") => last.id \notin Stored

\* a call suspended in the embedding computation moves on: it reaches the
\* insert or it ends with the error, and neither step writes anything
EncodeStep ==
    \A p \in Procs :
        (/\ calls[p].op \in {"save", "save_with_auto_link"}
         /\ calls[p].pc = "encode"
         /\ calls'[p] # calls[p]) =>
            /\ \/ calls'[p] = [calls[p] EXCEPT !.pc = "insert"]
               \/ /\ calls'[p] = Idle
                  /\ "error" \in DOMAIN last'
            /\ memories' = memories
            /\ embeddings' = embeddings
            /\ bm25_dirty' = bm25_dirty

\* C10: every stored memory has exactly one embedding row and every embedding
\* row belongs to a stored memory; when the embedding computation of save or
\* save_with_auto_link fails the call ends with the error, no memory row is
\* written and the BM25 index is not marked dirty.
EmbeddingFailureWritesNothing == []EmbeddingOneToOne /\ [][EncodeStep]_vars

EmbeddingFailedOnCleanIndex ==
    /\ Failed(last, "embedding")
    /\ ~bm25_dirty
    /\ Stored # {}

\* ----- two callers: saves and auto-links that all complete --------------------
AutoMem == 3

NextAutoLink ==
    \/ \E c \in Contents : next_id <= AutoMem /\ SaveStart("c1", c)
    \/ \E p \in Procs, c \in Contents, th \in LinkThresholds :
          next_id <= AutoMem /\ SwalStart(p, c, th, AutoMem)
    \/ \E p \in Procs : EncodeOk(p)
    \/ \E p \in Procs : SaveInsert(p)
    \/ \E p \in Procs : SaveFinish(p)
    \/ \E p \in Procs : SwalInsert(p)
    \/ \E p \in Procs : SwalMark(p)
    \/ \E p \in Procs : SwalLink(p)

SpecAutoLink == Init /\ [][NextAutoLink]_vars

\* C8: once save_with_auto_link has returned, every id in the new memory's
\* linked_ids names a memory whose linked_ids holds the new id exactly once;
\* with every save and save_with_auto_link call completed the linked_ids
\* relation is symmetric, and no linked_ids holds a duplicate or its own id.
AutoLinkSymmetric ==
    /\ \A a \in Stored :
          /\ Len(memories[a].linked_ids) = Cardinality(Range(memories[a].linked_ids))
          /\ a \notin Range(memories[a].linked_ids)
    /\ AllIdle =>
          \A a \in Stored, b \in Stored :
              b \in Range(memories[a].linked_ids) <=> a \in Range(memories[b].linked_ids)
    /\ (last.op = "save_with_auto_link" /\ "error" \notin DOMAIN last) =>
          \A t \in Range(memories[last.id].linked_ids) :
              t \in Stored /\ Count(memories[t].linked_ids, last.id) = 1

AutoLinkedTwoTargets ==
    /\ AllIdle
    /\ last.op = "save_with_auto_link"
    /\ Len(memories[last.id].linked_ids) >= 2
    /\ \E a \in Stored : memories[a].linked_ids = <<last.id>>

\* a step of a bump_coactivation call one of whose ids is not stored
BumpOnMissingStep(p) ==
    /\ calls[p].op = "bump_coactivation"
    /\ calls'[p] # calls[p]
    /\ calls[p].source_id \notin Stored \/ calls[p].target_id \notin Stored

\* C11: bump_coactivation with a source or target id that is not stored returns
\* False without an error and changes neither the coactivation table nor any
\* memory row; no coactivation row ever names an id that is not stored.
BumpMissingWritesNothing ==
    /\ [](\A k \in DOMAIN coactivation : k[1] \in Stored /\ k[2] \in Stored)
    /\ [][\A p \in Procs :
            BumpOnMissingStep(p) =>
                /\ coactivation' = coactivation
                /\ memories' = memories
                /\ calls'[p] = Idle
                /\ last' = [op |-> "bump_coactivation", result |-> FALSE]]_vars

BumpMissingRefused ==
    /\ last = [op |-> "bump_coactivation", result |-> FALSE]
    /\ coactivation # <<>>
    /\ Cardinality(Stored) = CoactMem

\* every typed link of a stored memory names a stored memory
NoDanglingLink ==
    \A m \in Stored :
        \A i \in 1..Len(memories[m].links) : memories[m].links[i].target_id \in Stored

\* a call is refused at the source lookup only for an absent source, a call in
\* flight has a stored source, and a call that meets an absent target ends with
\* the not-found error; none of these steps writes
MissingEndpointStep ==
    /\ (last' # last /\ Failed(last', "source not found")) =>
          /\ last'.source_id \notin Stored
          /\ memories' = memories
    /\ \A p \in Procs :
          (/\ calls[p].op = "add_causal_link"
           /\ calls[p].pc = "target"
           /\ calls[p].target_id \notin Stored
           /\ calls'[p] # calls[p]) =>
              /\ calls'[p] = Idle
              /\ last' = [op |-> "add_causal_link", error |-> "target not found"]
              /\ memories' = memories

\* C12: add_causal_link whose source or target is not stored fails with a
\* not-found error and changes no memory's links; no stored links list ever
\* names a target that is not stored.
CausalLinkNeedsBothEndpoints ==
    /\ [](NoDanglingLink /\ \A p \in Procs :
             calls[p].op = "add_causal_link" => calls[p].source_id \in Stored)
    /\ [][MissingEndpointStep]_vars

CausalLinkTargetRefused ==
    /\ Failed(last, "target not found")
    /\ \E m \in Stored : memories[m].links # <<>>

\* ----- specification: causal chains over typed link graphs --------------------
DirMem == 3

DirIds == 1..DirMem
TypedLinkTypes == {"caused_by", "leads_to", "related"}
TypedLink(t, ty) == [target_id |-> t, link_type |-> ty, created_at |-> 0, note |-> "n1"]
TypedLinks == {TypedLink(t, ty) : t \in DirIds, ty \in TypedLinkTypes}

\* links lists add_causal_link can leave: no (target, type) pair twice
ShortLinkLists == {<<>>} \cup {<<l>> : l \in TypedLinks}
RootLinkLists ==
    ShortLinkLists \cup
    {ab \in TypedLinks \X TypedLinks :
        ab[1].target_id # ab[2].target_id \/ ab[1].link_type # ab[2].link_type}

\* DirMem saved memories after some completed add_causal_link calls
InitDirections ==
    /\ \E root_links \in RootLinkLists :
       \E other_links \in [DirIds \ {1} -> ShortLinkLists] :
          memories = [id \in DirIds |->
                        [NewRow(1, 0, <<>>) EXCEPT
                            !.links = IF id = 1 THEN root_links ELSE other_links[id]]]
    /\ rowids = SetToSeq(DirIds)
    /\ embeddings = DirIds
    /\ coactivation = <<>>
    /\ episodes = <<>>
    /\ bm25_dirty = TRUE
    /\ bm25_doc_ids = {}
    /\ calls = [p \in Procs |-> Idle]
    /\ last = [op |-> "init"]
    /\ next_id = DirMem + 1
    /\ next_ep = 1
    /\ clock = 0
    /\ db = TRUE
    /\ hopfield_beta = ConfiguredBeta

Directions == {"backward", "forward", "sideways"}

NextDirections ==
    \E dir \in Directions, d \in {0, 1, MaxChainDepth} :
        last.op = "init" /\ GetCausalChain("c1", 1, dir, d)

SpecDirections == InitDirections /\ [][NextDirections]_vars

\* the stored ids one hop away from a set of ids over links of one type
TypedStep(S, ty) ==
    UNION {{memories[m].links[i].target_id :
               i \in {j \in 1..Len(memories[m].links) : memories[m].links[j].link_type = ty}}
           : m \in S \cap Stored} \cap Stored

RECURSIVE TypedWithinHops(_, _, _)
TypedWithinHops(S, ty, d) ==
    IF d = 0 THEN {} ELSE TypedStep(S, ty) \cup TypedWithinHops(TypedStep(S, ty), ty, d - 1)

FollowedType(direction) == IF direction = "backward" THEN "caused_by" ELSE "leads_to"

\* C13: a backward chain follows only caused_by links and a forward chain only
\* leads_to links: every returned pair carries that type and its memory lies
\* within max_depth (clamped to [1,5]) hops over links of that type; any other
\* direction ends with an error and no result.
CausalChainFollowsDirection ==
    last.op = "get_causal_chain" =>
        IF last.direction \in {"backward", "forward"}
        THEN /\ "error" \notin DOMAIN last
             /\ \A i \in 1..Len(last.result) :
                   /\ last.result[i][2] = FollowedType(last.direction)
                   /\ last.result[i][1] \in
                         TypedWithinHops({last.memory_id}, FollowedType(last.direction),
                                         ClampDepth(last.max_depth))
        ELSE /\ Failed(last, "invalid direction")
             /\ "result" \notin DOMAIN last

CausalChainSkipsOtherTypes ==
    /\ last.op = "get_causal_chain"
    /\ last.direction = "forward"
    /\ last.max_depth = 1
    /\ memories[1].links = <<TypedLink(2, "leads_to"), TypedLink(3, "related")>>
    /\ memories[2].links = <<TypedLink(3, "leads_to")>>
    /\ last.result = <<<<2, "leads_to">>>>

\* ----- specification: traversals over graphs with dangling targets ------------
DangMem == 2

DangIds == 1..DangMem
\* the ids a link may name: the stored ones and one that is not stored
NamedIds == 1..(DangMem + 1)
CausedBy(t) == [target_id |-> t, link_type |-> "caused_by", created_at |-> 0, note |-> "n1"]

\* store.py:754-779  update_memory_fields writes linked_ids and links as given,
\* so a row may name any id; the root row holds up to two entries of each kind
RootLinkedIds ==
    {<<>>} \cup {<<a>> : a \in NamedIds}
           \cup {q \in NamedIds \X NamedIds : q[1] # q[2]}
OtherLinkedIds == {<<>>} \cup {<<a>> : a \in NamedIds}
RootCausalLinks ==
    {<<>>} \cup {<<CausedBy(a)>> : a \in NamedIds}
           \cup {<<CausedBy(q[1]), CausedBy(q[2])>> :
                    q \in {r \in NamedIds \X NamedIds : r[1] # r[2]}}
OtherCausalLinks == {<<>>} \cup {<<CausedBy(a)>> : a \in NamedIds}

InitDangling ==
    /\ \E rl \in RootLinkedIds, rc \in RootCausalLinks :
       \E ol \in [DangIds \ {1} -> OtherLinkedIds] :
       \E oc \in [DangIds \ {1} -> OtherCausalLinks] :
          memories = [id \in DangIds |->
                        IF id = 1
                        THEN [NewRow(1, 0, rl) EXCEPT !.links = rc]
                        ELSE [NewRow(1, 0, ol[id]) EXCEPT !.links = oc[id]]]
    /\ rowids = SetToSeq(DangIds)
    /\ embeddings = DangIds
    /\ coactivation = <<>>
    /\ episodes = <<>>
    /\ bm25_dirty = TRUE
    /\ bm25_doc_ids = {}
    /\ calls = [p \in Procs |-> Idle]
    /\ last = [op |-> "init"]
    /\ next_id = DangMem + 2
    /\ next_ep = 1
    /\ clock = 0
    /\ db = TRUE
    /\ hopfield_beta = ConfiguredBeta

\* each behaviour applies one traversal to the root
NextDangling ==
    \/ \E b \in {1, DangMem + 1} : last.op = "init" /\ Spread(<<1>>, b, DangMem)
    \/ \E d \in {1, MaxChainDepth} : last.op = "init" /\ GetLinkedMemories("c1", 1, d)
    \/ \E d \in {1, MaxChainDepth} : last.op = "init" /\ GetCausalChain("c1", 1, "backward", d)

SpecDangling == InitDangling /\ [][NextDangling]_vars

\* C14: a link to an id that is not stored is skipped by spread, by
\* get_linked_memories and by get_causal_chain: no result holds an id that is
\* not stored; spread still returns every stored memory reachable over each
\* node's first max_branches candidates, and with a depth that does not cut the
\* traversal the other two return every other stored memory reachable from
\* the root.
DanglingLinksSkipped ==
    /\ last.op = "spread" =>
          /\ Range(last.expanded) \subseteq Stored
          /\ Reach(Range(last.seeds), last.max_branches, last.max_depth) \ Range(last.seeds)
                \subseteq Range(last.expanded)
    /\ last.op = "get_linked_memories" =>
          /\ Range(last.result) \subseteq Stored
          /\ last.depth = MaxChainDepth =>
                WithinHops({last.memory_id}, DangMem) \ {last.memory_id}
                    \subseteq Range(last.result)
    /\ last.op = "get_causal_chain" =>
          /\ Range(ChainTargets(last.result)) \subseteq Stored
          /\ last.max_depth = MaxChainDepth =>
                TypedWithinHops({last.memory_id}, "caused_by", DangMem) \ {last.memory_id}
                    \subseteq Range(ChainTargets(last.result))

DanglingLinkBeforeStored ==
    /\ last.op = "get_causal_chain"
    /\ memories[1].links = <<CausedBy(DangMem + 1), CausedBy(2)>>
    /\ memories[1].linked_ids = <<DangMem + 1, 2>>
    /\ ChainTargets(last.result) = <<2>>

\* ----- specification: one caller saving, auto-linking and recalling -----------
RecallMem == 2
RecallClock == 1

\* Hopfield scores of the stored patterns; all zero when retrieval raised
HopfieldScores == {[id \in Ids |-> 0], [id \in Ids |-> IF id = 1 THEN 0 ELSE ScoreOne]}

NextRecall ==
    \/ \E c \in Contents, th \in LinkThresholds :
          next_id <= RecallMem /\ SwalStart("c1", c, th, RecallMem)
    \/ EncodeOk("c1")
    \/ SwalInsert("c1")
    \/ SwalMark("c1")
    \/ SwalLink("c1")
    \/ (clock < RecallClock /\ Tick)
    \/ \E n \in {1, RecallMem}, depth \in {1, 2}, reading \in BOOLEAN, h \in HopfieldScores :
          RecallWithChain("c1", 1, n, depth, reading, h)

SpecRecall == Init /\ [][NextRecall]_vars

\* server.py:366-367  distance < 900 is a primary hit, >= 900 a linked one
TierThreshold == 900 * ScoreOne

\* C15: recall_with_chain returns the recall hits first, in ranked order, then
\* the linked memories, each with the sentinel distance 999.0; no memory id
\* appears twice, and no primary hit carries a distance of 900 or more.
RecallWithChainTiers ==
    last.op = "recall_with_chain" =>
        LET r == last.result
            k == Len(last.main_results)
        IN  /\ k <= Len(r) /\ k <= last.n_results
            /\ SubSeq(r, 1, k) = last.main_results
            /\ \A i \in 1..k : r[i][2] < TierThreshold
            /\ \A i \in 1..k, j \in 1..k : i <= j => r[i][2] <= r[j][2]
            /\ \A i \in (k + 1)..Len(r) : r[i][2] = 999 * ScoreOne
            /\ \A i \in 1..Len(r), j \in 1..Len(r) : r[i][1] = r[j][1] => i = j

RecallWithLinkedTier ==
    /\ last.op = "recall_with_chain"
    /\ Len(last.main_results) = 1
    /\ Len(last.result) = 2
    /\ last.result[2][2] = SentinelDistance
    /\ last.result[1][2] > 0

\* ----- predictive.memory_tokens, workspace.select_workspace_candidates --------
MaxTokens == 3

Tokens == 1..MaxTokens
RECURSIVE Factorial(_)
Factorial(n) == IF n <= 1 THEN 1 ELSE n * Factorial(n - 1)

\* a token-Jaccard overlap is a multiple of 1 / JaccardOne; a feature of 1.0 is
\* Scale, so a utility is kept as a numerator in units of 1 / (100 * Scale * JaccardOne)
JaccardOne == Factorial(MaxTokens)

\* workspace.py:46-52, 101-106  len(a & b) / len(a | b), 0 for an empty union
Jaccard(a, b) ==
    IF a \cup b = {} THEN 0
    ELSE (Cardinality(a \cap b) * JaccardOne) \div Cardinality(a \cup b)

\* workspace.py:36-58  _redundancy_penalty: the largest overlap with a chosen
\* memory; chosen memories without tokens are passed over
RedundancyPenalty(tokens, chosen_memories) ==
    LET overlaps == {Jaccard(tokens, chosen_memories[i].tokens) :
                        i \in {j \in 1..Len(chosen_memories) :
                                  chosen_memories[j].tokens # {}}}
    IN  IF chosen_memories = <<>> \/ tokens = {} \/ overlaps = {} THEN 0
        ELSE CHOOSE m \in overlaps : \A o \in overlaps : o <= m

\* workspace.py:27  temp = max(0.1, min(2.0, temperature)), in tenths
ClampTemperature(temperature) == Max(1, Min(20, temperature))

\* workspace.py:22-35  _candidate_utility, as <<numerator, temp>>
CandidateUtility(cand, redundancy_penalty, temperature) ==
    <<JaccardOne * (45 * cand.relevance + 20 * cand.novelty
                      + 20 * cand.prediction_error + 15 * cand.emotion_boost)
        - 25 * Scale * redundancy_penalty,
      ClampTemperature(temperature)>>

\* the order of two utilities
UtilityLess(a, b) == a[1] * b[2] < b[1] * a[2]

\* workspace.py:76-82  scored.sort(reverse=True)[0]: the first best candidate
BestOfUnsorted(scored) == scored[1]

BestOf(scored) ==
    LET k == CHOOSE i \in 1..Len(scored) :
                /\ \A j \in 1..Len(scored) : ~UtilityLess(scored[i][2], scored[j][2])
                /\ \A j \in 1..(i - 1) : UtilityLess(scored[j][2], scored[i][2])
    IN  scored[k]

\* workspace.py:85  remaining without the chosen memory id
RemoveChosenNone(remaining, id) == remaining

RemoveChosen(remaining, id) == SelectSeq(remaining, LAMBDA c : c.id # id)

\* workspace.py:75-85  the rounds of the competition
RECURSIVE SelectRounds(_, _, _, _)
SelectRounds(remaining, selected, max_results, temperature) ==
    IF remaining = <<>> \/ Len(selected) >= max_results THEN selected
    ELSE LET chosen == [i \in 1..Len(selected) |-> selected[i][1]]
             scored == [i \in 1..Len(remaining) |->
                          <<remaining[i],
                            CandidateUtility(remaining[i],
                                             RedundancyPenalty(remaining[i].tokens, chosen),
                                             temperature)>>]
             best == BestOf(scored)
         IN  SelectRounds(RemoveChosen(remaining, best[1].id), Append(selected, best),
                          max_results, temperature)

\* workspace.py:61-87  select_workspace_candidates
SelectWorkspaceCandidates(candidates, max_results, temperature) ==
    IF max_results <= 0 \/ candidates = <<>> THEN <<>>
    ELSE SelectRounds(candidates, <<>>, max_results, temperature)

\* workspace.py:90-109  diversity_score as <<sum of (1 - overlap), pairs>>
DiversityScore(mems) ==
    LET pairs == {q \in (1..Len(mems)) \X (1..Len(mems)) : q[1] < q[2]}
        PairScore(q) == IF mems[q[1]].tokens \cup mems[q[2]].tokens = {} THEN 0
                        ELSE JaccardOne - Jaccard(mems[q[1]].tokens, mems[q[2]].tokens)
        RECURSIVE Sum(_)
        Sum(S) == IF S = {} THEN 0
                  ELSE LET q == CHOOSE x \in S : TRUE IN PairScore(q) + Sum(S \ {q})
    IN  IF Len(mems) <= 1 THEN <<0, 1>> ELSE <<Sum(pairs), Cardinality(pairs)>>

\* ----- specification: one workspace competition over a drawn pool --------------
Candidate(id, tokens, relevance, salience) ==
    [id |-> id, tokens |-> tokens, relevance |-> relevance, novelty |-> salience[1],
     prediction_error |-> salience[2], emotion_boost |-> salience[3]]

Saliences == {<<0, 0, 0>>, <<Scale, 0, 0>>, <<Scale, Scale, 0>>, <<Scale, Scale, Scale>>}
DuplicateTokens == {{1}, {1, 2}}
OtherSaliences == {<<0, 0, 0>>, <<Scale, 0, 0>>, <<Scale, Scale, Scale>>}
OtherCandidates(id) ==
    {Candidate(id, t, r, s) : t \in SUBSET Tokens, r \in 0..(Scale - 1), s \in OtherSaliences}

\* two candidates with one token set and the highest relevance, then two others
Pools ==
    {<<Candidate(1, t, Scale, s), Candidate(2, t, Scale, s), c3, c4>> :
        t \in DuplicateTokens, s \in Saliences,
        c3 \in OtherCandidates(3), c4 \in OtherCandidates(4)}

Temperatures == {0, 7}

InitWorkspace ==
    /\ memories = <<>>
    /\ rowids = <<>>
    /\ embeddings = {}
    /\ coactivation = <<>>
    /\ episodes = <<>>
    /\ bm25_dirty = TRUE
    /\ bm25_doc_ids = {}
    /\ calls = [p \in Procs |-> Idle]
    /\ \E pool \in Pools : last = [op |-> "pool", candidates |-> pool]
    /\ next_id = 1
    /\ next_ep = 1
    /\ clock = 0
    /\ db = TRUE
    /\ hopfield_beta = ConfiguredBeta

SelectStep(max_results, temperature) ==
    /\ last.op = "pool"
    /\ last' = [op |-> "select_workspace_candidates",
                candidates |-> last.candidates,
                max_results |-> max_results,
                temperature |-> temperature,
                selected |-> SelectWorkspaceCandidates(last.candidates, max_results,
                                                       temperature)]
    /\ UNCHANGED <<db, hopfield_beta, store, index, calls, next_id, next_ep, clock>>

\* the top three of a pool of four
NextWorkspace == \E t \in Temperatures : SelectStep(3, t)

SpecWorkspace == InitWorkspace /\ [][NextWorkspace]_vars

\* the baseline of the comparison: the max_results candidates of highest
\* relevance, in pool order among equals, no penalty applied
RECURSIVE TopByRelevance(_, _, _)
TopByRelevance(remaining, acc, max_results) ==
    IF remaining = <<>> \/ Len(acc) >= max_results THEN acc
    ELSE LET k == CHOOSE i \in 1..Len(remaining) :
                     /\ \A j \in 1..Len(remaining) :
                           remaining[j].relevance <= remaining[i].relevance
                     /\ \A j \in 1..(i - 1) :
                           remaining[j].relevance < remaining[i].relevance
         IN  TopByRelevance(RemoveChosen(remaining, remaining[k].id),
                            Append(acc, remaining[k]), max_results)

SelectedMemories == [i \in 1..Len(last.selected) |-> last.selected[i][1]]
NaiveMemories == TopByRelevance(last.candidates, <<>>, last.max_results)

\* a / b >= c / d for diversity scores <<sum, pairs>>
DiversityAtLeast(a, b) == a[1] * b[2] >= b[1] * a[2]

Duplicates == {1, 2}
OtherIndexes == (1..Len(last.candidates)) \ Duplicates

\* the others differ from the duplicates and from each other in their tokens
OthersDistinct ==
    /\ \A i \in OtherIndexes :
          last.candidates[i].tokens # last.candidates[1].tokens
    /\ \A i, j \in OtherIndexes :
          i # j => last.candidates[i].tokens # last.candidates[j].tokens

\* the others have tokens and share none with the duplicates or each other
OthersDisjoint ==
    /\ \A i \in OtherIndexes :
          /\ last.candidates[i].tokens # {}
          /\ last.candidates[i].tokens \cap last.candidates[1].tokens = {}
    /\ \A i, j \in OtherIndexes :
          i # j => last.candidates[i].tokens \cap last.candidates[j].tokens = {}

\* C17 as stated: with two same-token candidates of highest relevance and other
\* candidates that are distinct, the three memories select_workspace_candidates
\* chooses are at least as diverse as the three of highest relevance.
WorkspaceBeatsNaiveDistinct ==
    (last.op = "select_workspace_candidates" /\ OthersDistinct) =>
        DiversityAtLeast(DiversityScore(SelectedMemories), DiversityScore(NaiveMemories))

\* C17 amended: with two same-token candidates of highest relevance and other
\* candidates whose token sets are non-empty, disjoint from the duplicates' and
\* pairwise disjoint, the three chosen memories are distinct candidates and at
\* least as diverse as the three of highest relevance.
WorkspaceBeatsNaiveDisjoint ==
    (last.op = "select_workspace_candidates" /\ OthersDisjoint) =>
        /\ Len(last.selected) = last.max_results
        /\ \A i, j \in 1..Len(last.selected) :
              i # j => last.selected[i][1].id # last.selected[j][1].id
        /\ DiversityAtLeast(DiversityScore(SelectedMemories), DiversityScore(NaiveMemories))

\* the competition dropped one duplicate for a disjoint candidate of lower
\* relevance and is strictly more diverse than the baseline
WorkspaceDropsDuplicate ==
    /\ last.op = "select_workspace_candidates"
    /\ OthersDisjoint
    /\ Duplicates \subseteq {NaiveMemories[i].id : i \in 1..Len(NaiveMemories)}
    /\ ~(Duplicates \subseteq {SelectedMemories[i].id : i \in 1..Len(SelectedMemories)})
    /\ ~DiversityAtLeast(DiversityScore(NaiveMemories), DiversityScore(SelectedMemories))

\* ----- specification: one caller saving and recalling divergently --------------
DivergentMem == 2

\* contexts: the contents, and one that matches no memory
DivergentContexts == Contents \cup {0}

NextDivergent ==
    \/ \E c \in Contents : next_id <= DivergentMem /\ SaveStart("c1", c)
    \/ EncodeOk("c1")
    \/ SaveInsert("c1")
    \/ SaveFinish("c1")
    \/ (clock < RecallClock /\ Tick)
    \/ \E context \in DivergentContexts, n \in {0, 1, 5, 30}, d \in BOOLEAN, r \in BOOLEAN :
          RecallDivergent("c1", context, n, d, r)

SpecDivergent == Init /\ [][NextDivergent]_vars

\* C16: on a non-empty store recall_divergent returns without raising, for any
\* context, a result that is not empty and no longer than n_results clamped to
\* [1, 20], and the diagnostics it was asked for count the results.
DivergentReturnsResults ==
    (last.op = "recall_divergent" /\ last.count > 0) =>
        /\ last.error = "none"
        /\ Len(last.results) >= 1
        /\ Len(last.results) <= Max(1, Min(20, last.n_results))
        /\ last.include_diagnostics =>
              last.diagnostics.selected_count = Len(last.results)

\* ----- record_activation, maybe_add_related_link, ConsolidationEngine.run -------
\* store.py:783-797  record_activation: activation_count + 1, last_activated = now
\* (called without a prediction_error)
RecordActivation(mems, id, now) ==
    IF id \in DOMAIN mems
    THEN [mems EXCEPT ![id].activation_count = @ + 1, ![id].last_activated = now]
    ELSE mems

\* store.py:783-797  record_activation(memory_id, prediction_error=x): the
\* prediction_error is stored as max(0.0, min(1.0, x)) with the activation
RecordActivationWith(mems, id, now, prediction_error) ==
    IF id \in DOMAIN mems
    THEN [mems EXCEPT ![id].activation_count = @ + 1, ![id].last_activated = now,
                      ![id].prediction_error = Max(0, Min(PeOne, prediction_error))]
    ELSE mems

\* consolidation.py:65-66  max(0.0, m.prediction_error * 0.9)
ReplayError(prediction_error) == Max(0, (9 * prediction_error) \div 10)

\* consolidation.py:72  threshold=0.6
RelatedThreshold == (6 * WeightOne) \div 10

\* store.py:846-853  the row source -> target exists with weight >= threshold
RelatedAlways(co, s, t, threshold) == TRUE

RelatedEnough(co, s, t, threshold) ==
    <<s, t>> \in DOMAIN co /\ co[<<s, t>>] >= threshold

\* store.py:854-860, 997-1023  add_causal_link(link_type="related") unless the
\* source already holds a related link to the target
AddRelatedLink(mems, s, t, now) ==
    IF s \notin DOMAIN mems \/ t \notin DOMAIN mems
         \/ HasLink(mems[s].links, t, "related", "auto")
    THEN mems
    ELSE [mems EXCEPT ![s].links =
            Append(@, [target_id |-> t, link_type |-> "related",
                       created_at |-> now, note |-> "auto"])]

\* ----- maybe_add_related_link as a call --------------------------------------
\* store.py:845-853  SELECT weight ...; no row or weight < threshold: return False
MarlStart(p, s, t, threshold) ==
    /\ IdleP(p)
    /\ IF RelatedEnough(coactivation, s, t, threshold)
         THEN /\ calls' = [calls EXCEPT ![p] =
                    [op |-> "maybe_add_related_link", pc |-> "source", source_id |-> s,
                     target_id |-> t, threshold |-> threshold, links |-> <<>>]]
              /\ last' = last
         ELSE Finish(p, [op |-> "maybe_add_related_link", result |-> FALSE,
                         source_id |-> s, target_id |-> t, threshold |-> threshold,
                         written |-> FALSE])
    /\ UNCHANGED <<db, hopfield_beta, store, index, next_id, next_ep, clock>>

\* store.py:1004-1006  add_causal_link: source_memory = await self.get_by_id(source_id)
MarlSource(p) ==
    LET c == calls[p]
    IN  /\ c.op = "maybe_add_related_link"
        /\ c.pc = "source"
        /\ IF c.source_id \in Stored
             THEN /\ calls' = [calls EXCEPT ![p].pc = "target",
                                            ![p].links = memories[c.source_id].links]
                  /\ last' = last
             ELSE Finish(p, [op |-> "maybe_add_related_link",
                             error |-> "source not found"])
        /\ UNCHANGED <<db, hopfield_beta, store, index, next_id, next_ep, clock>>

\* store.py:1007-1022  target lookup, the "related" MemoryLink, duplicate check
MarlTarget(p) ==
    LET c == calls[p]
        new_link == [target_id |-> c.target_id, link_type |-> "related",
                     created_at |-> clock, note |-> "auto"]
    IN  /\ c.op = "maybe_add_related_link"
        /\ c.pc = "target"
        /\ IF TargetMissing(c.target_id)
             THEN Finish(p, [op |-> "maybe_add_related_link",
                             error |-> "target not found"])
             ELSE IF HasLink(c.links, c.target_id, "related", "auto")
             THEN Finish(p, [op |-> "maybe_add_related_link", result |-> TRUE,
                             source_id |-> c.source_id, target_id |-> c.target_id,
                             threshold |-> c.threshold, written |-> FALSE])
             ELSE /\ calls' = [calls EXCEPT ![p].pc = "write",
                                            ![p].links = Append(c.links, new_link)]
                  /\ last' = last
        /\ UNCHANGED <<db, hopfield_beta, store, index, next_id, next_ep, clock>>

\* store.py:1023, 859-860  update_memory_fields(links=...), return True
MarlWrite(p) ==
    LET c == calls[p]
    IN  /\ c.op = "maybe_add_related_link"
        /\ c.pc = "write"
        /\ memories' = [memories EXCEPT ![c.source_id].links = c.links]
        /\ Finish(p, [op |-> "maybe_add_related_link", result |-> TRUE,
                       source_id |-> c.source_id, target_id |-> c.target_id,
                       threshold |-> c.threshold, written |-> TRUE])
        /\ UNCHANGED <<db, hopfield_beta, rowids, embeddings, coactivation, episodes, index,
                       next_id, next_ep, clock>>

\* consolidation.py:61  delta = max(0.05, min(1.0, link_update_strength))
ReplayStrengthUnclamped(link_update_strength) == link_update_strength

ReplayStrength(link_update_strength) ==
    Max(WeightOne \div StrengthSteps, Min(WeightOne, link_update_strength))

\* store.py:631-650  list_recent: ORDER BY timestamp DESC LIMIT ?
ListRecent(limit) ==
    LET keyed == SortByKey([i \in 1..Len(rowids) |->
                              <<rowids[i], 0 - memories[rowids[i]].timestamp>>], <<>>)
    IN  Take([i \in 1..Len(keyed) |-> keyed[i][1]], limit)

\* consolidation.py:42, 84-89  timestamp >= now - max(1, window_hours) hours;
\* the clock counts hours
IsAfter(id, window_hours, now) == memories[id].timestamp >= now - Max(1, window_hours)

\* consolidation.py:58-75  one replay of the pair recent[idx], recent[idx + 1]
ReplayPair(st, left, right, delta, now) ==
    LET co == IF BothFound(left \in DOMAIN st.memories, right \in DOMAIN st.memories)
              THEN BumpRows(st.coactivation, left, right, Clamp01(delta))
              ELSE st.coactivation
        \* left and right are the Memory objects of the list read before the loop
        left_error == ReplayError(memories[left].prediction_error)
        right_error == ReplayError(memories[right].prediction_error)
        activated == RecordActivationWith(
                         RecordActivationWith(st.memories, left, now, left_error),
                         right, now, right_error)
        related == RelatedEnough(co, left, right, RelatedThreshold)
    IN  [memories |-> IF related THEN AddRelatedLink(activated, left, right, now)
                      ELSE activated,
         coactivation |-> co,
         replay_events |-> st.replay_events + 1,
         coactivation_updates |-> st.coactivation_updates + 2,
         link_updates |-> st.link_updates + (IF related THEN 1 ELSE 0),
         refreshed_ids |-> st.refreshed_ids \cup {left, right}]

\* consolidation.py:54-75  for idx in range(len(recent) - 1)
RECURSIVE ReplayLoop(_, _, _, _, _, _)
ReplayLoop(recent, idx, st, max_replay_events, delta, now) ==
    IF idx > Len(recent) - 1 \/ st.replay_events >= max_replay_events THEN st
    ELSE ReplayLoop(recent, idx + 1,
                    ReplayPair(st, recent[idx], recent[idx + 1], delta, now),
                    max_replay_events, delta, now)

\* consolidation.py:35-82  ConsolidationEngine.run: the store after the run and
\* the four counts
Run(window_hours, max_replay_events, link_update_strength, now) ==
    LET listed == ListRecent(Max(max_replay_events * 2, 50))
        recent == SelectSeq(listed, LAMBDA id : IsAfter(id, window_hours, now))
        start == [memories |-> memories, coactivation |-> coactivation,
                  replay_events |-> 0, coactivation_updates |-> 0,
                  link_updates |-> 0, refreshed_ids |-> {}]
        st == ReplayLoop(recent, 1, start, max_replay_events,
                         ReplayStrength(link_update_strength), now)
    IN  IF Len(recent) < 2
        THEN [memories |-> memories, coactivation |-> coactivation, recent |-> recent,
              stats |-> [replay_events |-> 0, coactivation_updates |-> 0,
                         link_updates |-> 0, refreshed_memories |-> Len(recent)]]
        ELSE [memories |-> st.memories, coactivation |-> st.coactivation,
              recent |-> recent,
              stats |-> [replay_events |-> st.replay_events,
                         coactivation_updates |-> st.coactivation_updates,
                         link_updates |-> st.link_updates,
                         refreshed_memories |-> Cardinality(st.refreshed_ids)]]

\* store.py:1293-1306  consolidate_memories, with no other caller running
ConsolidateMemories(p, window_hours, max_replay_events, link_update_strength) ==
    LET out == Run(window_hours, max_replay_events, link_update_strength, clock)
    IN  /\ IdleP(p)
        /\ memories' = out.memories
        /\ coactivation' = out.coactivation
        /\ last' = [op |-> "consolidate_memories", window_hours |-> window_hours,
                    max_replay_events |-> max_replay_events,
                    link_update_strength |-> link_update_strength,
                    recent |-> out.recent, stats |-> out.stats]
        /\ UNCHANGED <<db, hopfield_beta, rowids, embeddings, episodes, index, calls, next_id, next_ep, clock>>

\* ----- specification: one caller saving and consolidating ----------------------
ConsMem == 2
ConsClock == 2
MaxActivation == 1

\* link_update_strength: below 0.05, 0.6, above 1.0
Strengths == {0, (6 * WeightOne) \div 10, WeightOne + 1}

NextConsolidate ==
    \/ (next_id <= ConsMem /\ SaveStart("c1", 1))
    \/ EncodeOk("c1")
    \/ SaveInsert("c1")
    \/ SaveFinish("c1")
    \/ (clock < ConsClock /\ Tick)
    \/ \E w \in {1, ConsClock}, e \in {0, 10}, d \in Strengths :
          /\ \A id \in Stored : memories[id].activation_count < MaxActivation
          /\ ConsolidateMemories("c1", w, e, d)

SpecConsolidate == Init /\ [][NextConsolidate]_vars

\* a step of consolidate_memories
ConsolidateStep ==
    /\ last'.op = "consolidate_memories"
    /\ calls' = calls /\ rowids' = rowids /\ clock' = clock

\* C18: with exactly two memories, both saved inside the window, and no
\* coactivation between them, consolidate_memories(window_hours=1,
\* link_update_strength=d), max_replay_events being at least 1 as its default
\* is, reports at least one replay event, raises the activation_count of both
\* by at least 1 and leaves both weights at d clamped to [0.05, 1.0].
ConsolidationReplaysPair ==
    [][(/\ ConsolidateStep
        /\ last'.window_hours = 1
        /\ last'.max_replay_events >= 1
        /\ Stored = {1, 2}
        /\ \A id \in Stored : memories[id].timestamp >= clock - 1
        /\ Weight(coactivation, 1, 2) = 0 /\ Weight(coactivation, 2, 1) = 0)
       => LET d == last'.link_update_strength
              clamped == IF 20 * d < WeightOne THEN WeightOne \div 20
                         ELSE IF d > WeightOne THEN WeightOne ELSE d
          IN  /\ last'.stats.replay_events >= 1
              /\ \A id \in Stored :
                    memories'[id].activation_count >= memories[id].activation_count + 1
              /\ Weight(coactivation', 1, 2) = clamped
              /\ Weight(coactivation', 2, 1) = clamped]_vars

\* two memories replayed with a strength below the floor: both weights are 0.05
ConsolidatedAtFloor ==
    /\ last.op = "consolidate_memories"
    /\ last.link_update_strength = 0
    /\ last.stats.replay_events = 1
    /\ Stored = {1, 2}
    /\ Weight(coactivation, 1, 2) = WeightOne \div 20
    /\ Weight(coactivation, 2, 1) = WeightOne \div 20
    /\ \A id \in Stored : memories[id].activation_count = 1

\* C19: when fewer than two memories fall inside the window, consolidation
\* returns four zero counts and modifies no memory, link or coactivation row.
ConsolidationZeroedNoOp ==
    [][(ConsolidateStep /\ Len(last'.recent) < 2)
       => /\ last'.stats = [replay_events |-> 0, coactivation_updates |-> 0,
                            link_updates |-> 0, refreshed_memories |-> 0]
          /\ memories' = memories
          /\ coactivation' = coactivation]_vars

\* ----- connect, disconnect, _ensure_connected -----------------------------------
\* store.py:311-314  _ensure_connected raises RuntimeError when _db is None
EnsureConnected == db

\* store.py:284-302  connect, under the lock: opens the database when _db is None
Connect(p) ==
    /\ IdleP(p)
    /\ db' = TRUE
    /\ last' = [op |-> "connect", opened |-> ~db]
    /\ UNCHANGED <<hopfield_beta, store, index, calls, next_id, next_ep, clock>>

\* store.py:304-309  disconnect, under the lock, with no call in flight
Disconnect(p) ==
    /\ \A q \in Procs : IdleP(q)
    /\ db' = FALSE
    /\ last' = [op |-> "disconnect", closed |-> db]
    /\ UNCHANGED <<hopfield_beta, store, index, calls, next_id, next_ep, clock>>

\* the operations whose first statement, or whose first call's first statement,
\* is db = self._ensure_connected()
EnsuringOps ==
    {"save", "search", "list_recent", "get_stats", "get_by_id", "get_by_ids",
     "get_all", "update_access", "update_episode_id", "record_activation",
     "bump_coactivation", "maybe_add_related_link", "save_with_auto_link",
     "get_linked_memories", "add_causal_link", "search_important_memories",
     "save_episode", "get_episode_by_id", "search_episodes", "list_all_episodes",
     "delete_episode", "hopfield_load"}

\* store.py:369 (and the like)  an operation called without a connection
CallUnconnected(p, op) ==
    /\ IdleP(p)
    /\ ~EnsureConnected
    /\ Finish(p, [op |-> op, error |-> "not connected"])
    /\ UNCHANGED <<db, hopfield_beta, store, index, next_id, next_ep, clock>>

\* store.py:760-765  the columns update_memory_fields writes
ValidCols ==
    {"access_count", "last_accessed", "linked_ids", "episode_id", "sensory_data",
     "camera_position", "tags", "links", "novelty_score", "prediction_error",
     "activation_count", "last_activated", "reading"}

\* store.py:754-779  update_memory_fields(memory_id, **fields); fields maps
\* the keywords passed to their values
UpdateMemoryFields(p, memory_id, fields) ==
    LET valid == DOMAIN fields \cap ValidCols
    IN  /\ IdleP(p)
        /\ IF DOMAIN fields = {}
             THEN /\ Finish(p, [op |-> "update_memory_fields", result |-> TRUE])
                  /\ memories' = memories
           ELSE IF ~EnsureConnected
             THEN /\ Finish(p, [op |-> "update_memory_fields", error |-> "not connected"])
                  /\ memories' = memories
           ELSE IF valid = {}
             THEN /\ Finish(p, [op |-> "update_memory_fields", result |-> TRUE])
                  /\ memories' = memories
           ELSE /\ Finish(p, [op |-> "update_memory_fields",
                              result |-> memory_id \in Stored])
                /\ memories' =
                     IF memory_id \in Stored
                     THEN [memories EXCEPT ![memory_id] =
                             [f \in DOMAIN @ |-> IF f \in valid THEN fields[f] ELSE @[f]]]
                     ELSE memories
        /\ UNCHANGED <<db, hopfield_beta, rowids, embeddings, coactivation, episodes, index,
                       next_id, next_ep, clock>>

\* ----- specification: a store that is connected and disconnected ----------------
ConnectMem == 2

\* keyword sets passed to update_memory_fields
FieldSets ==
    {<<>>, [bogus |-> 1], [activation_count |-> 1]}

InitConnect ==
    /\ memories = <<>>
    /\ rowids = <<>>
    /\ embeddings = {}
    /\ coactivation = <<>>
    /\ episodes = <<>>
    /\ bm25_dirty = TRUE
    /\ bm25_doc_ids = {}
    /\ calls = [p \in Procs |-> Idle]
    /\ last = [op |-> "init"]
    /\ next_id = 1
    /\ next_ep = 1
    /\ clock = 0
    /\ db = FALSE
    /\ hopfield_beta = ConfiguredBeta

NextConnect ==
    \/ \E p \in Procs : Connect(p)
    \/ \E p \in Procs : Disconnect(p)
    \/ \E p \in Procs, c \in Contents :
          EnsureConnected /\ next_id <= ConnectMem /\ SaveStart(p, c)
    \/ \E p \in Procs : EncodeOk(p)
    \/ \E p \in Procs : SaveInsert(p)
    \/ \E p \in Procs : SaveFinish(p)
    \/ \E p \in Procs, op \in EnsuringOps : CallUnconnected(p, op)
    \/ \E p \in Procs, id \in 1..ConnectMem, fields \in FieldSets :
          UpdateMemoryFields(p, id, fields)

SpecConnect == InitConnect /\ [][NextConnect]_vars

\* C20: an operation invoked while the store is not connected fails with the
\* not-connected error and leaves the storage as it was, and connect() on a
\* connected store changes nothing.
NotConnectedIsFatal ==
    [][/\ (~db /\ ~db' /\ last'.op # "disconnect")
            => /\ "error" \in DOMAIN last'
               /\ last'.error = "not connected"
               /\ store' = store
       /\ (db /\ last'.op = "connect" /\ last' # last)
            => /\ db'
               /\ store' = store
               /\ index' = index]_vars

\* ----- specification: one caller saving and recalling with Hopfield scores ------
HopMem == 2
HopClock == 1

\* hopfield_scores: none (retrieval raised, or the network is not loaded), an
\* entry for the first memory only (negative or positive), entries for all
HopfieldMaps ==
    {<<>>, [id \in {1} |-> 0 - ScoreOne], [id \in {1} |-> ScoreOne],
     [id \in 1..HopMem |-> IF id = 1 THEN 0 ELSE ScoreOne]}

NextHopfield ==
    \/ \E c \in Contents : next_id <= HopMem /\ SaveStart("c1", c)
    \/ EncodeOk("c1")
    \/ SaveInsert("c1")
    \/ SaveFinish("c1")
    \/ (clock < HopClock /\ Tick)
    \/ \E n \in {1, HopMem}, h \in HopfieldMaps : RecallCall("c1", 1, n, FALSE, h)

SpecHopfield == Init /\ [][NextHopfield]_vars

\* the Hopfield scores add nothing to any memory of the pool
HopfieldContributesNothing ==
    \A i \in 1..Len(last.scored_results) :
        LET id == last.scored_results[i][1]
        IN  id \notin DOMAIN last.hopfield_scores \/ last.hopfield_scores[id] <= 0

\* C21: when Hopfield retrieval raised, is not loaded, has no entry for a memory
\* or scores it negative, that memory keeps its final_score as distance; when no
\* memory of the pool gets a boost, recall returns the first n_results entries
\* of search_with_scoring over the pool, in final_score order.
HopfieldDegradesToZeroBoost ==
    last.op = "recall" =>
        LET scored == last.scored_results
            r == last.result
        IN  /\ \A i \in 1..Len(r) :
                  (r[i][1] \notin DOMAIN last.hopfield_scores
                     \/ last.hopfield_scores[r[i][1]] <= 0)
                  => \E j \in 1..Len(scored) : scored[j] = r[i]
            /\ HopfieldContributesNothing =>
                  /\ Len(r) = Min(last.n_results, Len(scored))
                  /\ \A i \in 1..Len(r) : r[i] = scored[i]
                  /\ \A i, j \in 1..Len(r) : i <= j => r[i][2] <= r[j][2]

\* two memories recalled while the first carries a negative Hopfield score
RecallWithNegativeHopfield ==
    /\ last.op = "recall"
    /\ Len(last.result) = 2
    /\ 1 \in DOMAIN last.hopfield_scores
    /\ last.hopfield_scores[1] < 0
    /\ last.result[1][2] > 0

\* ----- specification: one caller writing, one caller searching -------------------
IndexMem == 2

NextIndex ==
    \/ (next_id <= IndexMem /\ SaveStart("c1", 1))
    \/ (next_id <= IndexMem /\ SwalStart("c1", 1, Scale, IndexMem))
    \/ EncodeOk("c1")
    \/ SaveInsert("c1")
    \/ SaveFinish("c1")
    \/ SwalInsert("c1")
    \/ SwalMark("c1")
    \/ SwalLink("c1")
    \/ SwsStart("c2", 1, 1)
    \/ SwsGetAll("c2")
    \/ SwsBuild("c2")

SpecIndex == Init /\ [][NextIndex]_vars

\* C22: the lexical index starts stale, every save and save_with_auto_link
\* marks it stale, and the first search_with_scoring after a write rebuilds it
\* over all stored memories and clears the flag: whenever no call is in flight
\* and the flag is clear, the index holds exactly the stored memories, and a
\* search that returned hits leaves the flag clear.
LexicalIndexLazyRebuild ==
    /\ last.op = "init" => bm25_dirty
    /\ (AllIdle /\ last.op = "search_with_scoring" /\ last.hits # <<>>) => ~bm25_dirty
    /\ (AllIdle /\ ~bm25_dirty) => bm25_doc_ids = Stored

\* ----- specification: one search over a drawn store -----------------------------
SearchMem == 2

\* emotion, category and timestamp of a stored memory
Profiles ==
    {<<"neutral", "daily", 0>>, <<"happy", "daily", 1>>,
     <<"neutral", "technical", 1>>, <<"happy", "technical", 0>>}

SearchIds == 1..SearchMem

InitSearch ==
    /\ \E c \in [SearchIds -> Contents], f \in [SearchIds -> Profiles] :
          memories = [id \in SearchIds |->
                        [NewRow(c[id], f[id][3], <<>>) EXCEPT
                            !.emotion = f[id][1], !.category = f[id][2]]]
    /\ rowids = SetToSeq(SearchIds)
    /\ embeddings = SearchIds
    /\ coactivation = <<>>
    /\ episodes = <<>>
    /\ bm25_dirty = TRUE
    /\ bm25_doc_ids = {}
    /\ calls = [p \in Procs |-> Idle]
    /\ last = [op |-> "init"]
    /\ next_id = SearchMem + 1
    /\ next_ep = 1
    /\ clock = 0
    /\ db = TRUE
    /\ hopfield_beta = ConfiguredBeta

\* store.py:491-509  search: the hits as <<id, distance>> pairs
SearchCall(p, query, n_results, emotion_filter, category_filter, date_from, date_to) ==
    LET hits == VectorSearch(query, n_results, emotion_filter, category_filter,
                             date_from, date_to)
    IN  /\ IdleP(p)
        /\ last.op = "init"
        /\ last' = [op |-> "search", query |-> query, n_results |-> n_results,
                    emotion_filter |-> emotion_filter,
                    category_filter |-> category_filter,
                    date_from |-> date_from, date_to |-> date_to,
                    result |-> [i \in 1..Len(hits) |->
                                  <<hits[i], Distance(query, memories[hits[i]].content)>>]]
        /\ UNCHANGED <<db, hopfield_beta, store, index, calls, next_id, next_ep, clock>>

DateRanges == {<<NoDate, NoDate>>, <<1, NoDate>>, <<NoDate, 0>>}

NextSearch ==
    \E n \in {0, 1, SearchMem}, ef \in {NoFilter, "happy"},
       cf \in {NoFilter, "technical"}, dr \in DateRanges :
        SearchCall("c1", 1, n, ef, cf, dr[1], dr[2])

SpecSearch == InitSearch /\ [][NextSearch]_vars

\* the stored memories the filters of the last search admit
EligibleOfLast ==
    {id \in Stored : /\ id \in embeddings
                     /\ last.emotion_filter # "" =>
                           memories[id].emotion = last.emotion_filter
                     /\ last.category_filter # "" =>
                           memories[id].category = last.category_filter
                     /\ last.date_from >= 0 => memories[id].timestamp >= last.date_from
                     /\ last.date_to >= 0 => memories[id].timestamp <= last.date_to}

ReturnedOfLast == {last.result[i][1] : i \in 1..Len(last.result)}

\* C23: search returns at most n_results results, in non-decreasing distance
\* order, and no eligible memory left out is strictly nearer than a returned one.
SearchReturnsNearest ==
    last.op = "search" =>
        LET r == last.result
        IN  /\ Len(r) <= last.n_results
            /\ \A i, j \in 1..Len(r) : i <= j => r[i][2] <= r[j][2]
            /\ \A i \in 1..Len(r) :
                  r[i][2] = Distance(last.query, memories[r[i][1]].content)
            /\ \A id \in EligibleOfLast \ ReturnedOfLast, i \in 1..Len(r) :
                  Distance(last.query, memories[id].content) >= r[i][2]

\* a search that left out the farther of two eligible memories
SearchLeftOutFarther ==
    /\ last.op = "search"
    /\ Len(last.result) = 1
    /\ last.result[1][2] = 0
    /\ \E id \in EligibleOfLast \ ReturnedOfLast :
          Distance(last.query, memories[id].content) > 0

\* C24: every memory search returns satisfies all supplied filters; the filters
\* are applied before ranking and truncation, so the result holds
\* min(n_results, number of matching memories) memories, and an omitted filter
\* does not restrict.
SearchFiltersThenRanks ==
    last.op = "search" =>
        /\ ReturnedOfLast \subseteq EligibleOfLast
        /\ Len(last.result) = Min(last.n_results, Cardinality(EligibleOfLast))
        /\ Cardinality(ReturnedOfLast) = Len(last.result)

\* the only match is farther than a memory the filter rejects, and is returned
SearchMatchNotCrowdedOut ==
    /\ last.op = "search"
    /\ last.n_results = 1
    /\ last.category_filter = "technical"
    /\ Len(last.result) = 1
    /\ \E id \in Stored \ EligibleOfLast :
          Distance(last.query, memories[id].content) < last.result[1][2]

\* ----- specification: saves with any importance, beside links and coactivation --
SaveMem == 3

\* test_memory.py:37-44  importance values below, inside and above the range
Importances == {0 - 1, 0, 3, 10}

NextSave ==
    \/ \E i \in Importances :
          next_id <= SaveMem /\ SaveStartWith("c1", 1, DefaultEmotion, i, DefaultCategory)
    \/ \E i \in {0, 10} :
          /\ next_id <= SaveMem
          /\ SwalStartWith("c2", 1, DefaultEmotion, i, DefaultCategory, Scale, SaveMem)
    \/ \E p \in Procs : EncodeOk(p)
    \/ \E p \in Procs : SaveInsert(p)
    \/ \E p \in Procs : SaveFinish(p)
    \/ \E p \in Procs : SwalInsert(p)
    \/ \E p \in Procs : SwalMark(p)
    \/ \E p \in Procs : SwalLink(p)
    \/ BumpStart("c2", 1, 2, StrengthSteps)
    \/ BumpCheck("c2")
    \/ Bump("c2")

SpecSave == Init /\ [][NextSave]_vars

\* C25: save and save_with_auto_link accept every importance; the stored and
\* the returned importance are min(5, max(1, requested)), e.g. 0 becomes 1 and
\* 10 becomes 5, and every stored memory has an importance in 1..5.
ImportanceClamped ==
    /\ \A id \in Stored : memories[id].importance \in 1..5
    /\ (last.op \in {"save", "save_with_auto_link"} /\ "error" \notin DOMAIN last) =>
          /\ last.id \in Stored
          /\ last.importance = (IF last.requested < 1 THEN 1
                                ELSE IF last.requested > 5 THEN 5
                                ELSE last.requested)
          /\ memories[last.id].importance = last.importance

\* both ends of the range were hit: one caller saved 0, the other 10
ImportanceClampedBothEnds ==
    /\ last.op = "save_with_auto_link"
    /\ last.requested = 10
    /\ memories[last.id].importance = 5
    /\ \E id \in Stored : memories[id].importance = 1

\* a step of a save call of caller p
SaveStepOf(p) ==
    /\ calls'[p] # calls[p]
    /\ \/ calls[p].op = "save"
       \/ calls[p] = Idle /\ calls'[p].op = "save"

\* C26: saving the same content again creates a separate memory with its own
\* id; a save adds exactly one memory, with empty linked_ids and links, and
\* leaves every stored memory, link and coactivation row as it was.
SaveAddsOneMemoryOnly ==
    [][\A p \in Procs : SaveStepOf(p) =>
          /\ coactivation' = coactivation
          /\ \A id \in Stored : (id \in Stored' /\ memories'[id] = memories[id])
          /\ IF calls[p] = Idle
               THEN Stored' = Stored /\ calls'[p].id \notin Stored
               ELSE /\ Stored' \in {Stored, Stored \cup {calls[p].id}}
                    /\ (calls[p].id \in Stored' \ Stored) =>
                          (/\ memories'[calls[p].id].linked_ids = <<>>
                           /\ memories'[calls[p].id].links = <<>>)
                    /\ (calls'[p] = Idle) =>
                          (calls[p].id \in Stored' /\ last'.id = calls[p].id)]_vars

\* a second save of the same content finished beside a link and a coactivation row
SavedTwiceBesideLinks ==
    /\ last.op = "save"
    /\ \E id \in Stored \ {last.id} :
          /\ memories[id].content = memories[last.id].content
          /\ memories[id].linked_ids # <<>>
    /\ coactivation # <<>>
    /\ memories[last.id].linked_ids = <<>>

\* ----- specification: episodes created, stored and deleted --------------------
EpMem == 2

\* member lists given to create_episode, and to save_episode with an id
\* (EpMem + 1) that is never stored
MemberLists == {<<1>>, <<1, 2>>}
UnresolvedLists == {<<EpMem + 1, 1>>}

NextEpisode ==
    \/ \E c \in Contents : next_id <= EpMem /\ SaveStart("c2", c)
    \/ EncodeOk("c2")
    \/ SaveInsert("c2")
    \/ SaveFinish("c2")
    \/ \E ms \in MemberLists : CeStart("c1", ms)
    \/ CeSave("c1")
    \/ CeUpdate("c1")
    \/ \E ms \in UnresolvedLists : SaveEpisode("c1", ms)
    \/ \E p \in Procs, e \in 1..(MaxEp + 1) : DeStart(p, e)
    \/ \E p \in Procs : DeUpdate(p)
    \/ \E p \in Procs : DeDelete(p)

SpecEpisode == Init /\ [][NextEpisode]_vars

\* a step of a delete_episode call of caller p
DeleteStepOf(p) ==
    /\ calls'[p] # calls[p]
    /\ \/ calls[p].op = "delete_episode"
       \/ calls[p] = Idle /\ calls'[p].op = "delete_episode"

\* what every step of a delete_episode call leaves alone
DeleteFrame(p, episode_id, members) ==
    /\ Stored' = Stored
    /\ rowids' = rowids /\ embeddings' = embeddings
    /\ coactivation' = coactivation
    /\ \A id \in Stored :
          /\ memories'[id] = [memories[id] EXCEPT !.episode_id = memories'[id].episode_id]
          /\ memories'[id].episode_id \in {memories[id].episode_id, NoEpisode}
          /\ (id \notin members) => (memories'[id] = memories[id])
    /\ \A e \in DOMAIN episodes \ {episode_id} :
          (e \in DOMAIN episodes' /\ episodes'[e] = episodes[e])

\* C27: delete_episode removes only the episode record: no memory is added or
\* removed, every member keeps all fields but episode_id, which is cleared,
\* every other memory and episode is untouched, and a member id that does not
\* resolve does not stop the call from deleting the episode.
DeleteEpisodeKeepsMemories ==
    [][\A p \in Procs : DeleteStepOf(p) =>
          IF calls[p] = Idle
          THEN /\ memories' = memories /\ episodes' = episodes
               /\ LET e == calls'[p].episode_id
                  IN  calls'[p].todo = (IF e \in DOMAIN episodes
                                        THEN episodes[e].memory_ids ELSE <<>>)
          ELSE /\ DeleteFrame(p, calls[p].episode_id, Range(calls[p].memory_ids))
               /\ IF calls[p].todo # <<>>
                  THEN /\ calls'[p] = [calls[p] EXCEPT !.todo = Tail(calls[p].todo)]
                       /\ episodes' = episodes
                       /\ (Head(calls[p].todo) \in Stored) =>
                             (memories'[Head(calls[p].todo)].episode_id = NoEpisode)
                  ELSE /\ calls'[p] = Idle
                       /\ memories' = memories
                       /\ calls[p].episode_id \notin DOMAIN episodes'
                       /\ last' = [op |-> "delete_episode",
                                   episode_id |-> calls[p].episode_id,
                                   memory_ids |-> calls[p].memory_ids]]_vars

\* an episode with a member that is not stored was deleted; its stored member
\* is still there, without a back-reference
EpisodeDeletedMembersKept ==
    /\ last.op = "delete_episode"
    /\ EpMem + 1 \in Range(last.memory_ids)
    /\ EpMem + 1 \notin Stored
    /\ \E id \in Range(last.memory_ids) \cap Stored : memories[id].episode_id = NoEpisode
    /\ last.episode_id \notin DOMAIN episodes
    /\ Stored = 1..EpMem

\* ----- specification: coactivation promoted to "related" links -----------------
RelMem == 2

RelatedDeltas == {0, StrengthSteps, RelatedThreshold}
RelatedThresholds == {0, RelatedThreshold}
RelatedPairs == {<<1, 2>>, <<2, 1>>}

NextRelated ==
    \/ (next_id <= RelMem /\ SaveStart("c1", 1))
    \/ EncodeOk("c1")
    \/ SaveInsert("c1")
    \/ SaveFinish("c1")
    \/ \E d \in RelatedDeltas : BumpStart("c1", 1, 2, d)
    \/ BumpCheck("c1")
    \/ Bump("c1")
    \/ \E p \in Procs, st \in RelatedPairs, th \in RelatedThresholds :
          MarlStart(p, st[1], st[2], th)
    \/ \E p \in Procs : MarlSource(p)
    \/ \E p \in Procs : MarlTarget(p)
    \/ \E p \in Procs : MarlWrite(p)

SpecRelated == Init /\ [][NextRelated]_vars

\* the "related" links from s to t
RelatedLinks(mems, s, t) ==
    {i \in 1..Len(mems[s].links) :
        mems[s].links[i].target_id = t /\ mems[s].links[i].link_type = "related"}

\* the weight of the row s -> t reaches the threshold
WeightReaches(s, t, threshold) ==
    \E k \in DOMAIN coactivation :
        k[1] = s /\ k[2] = t /\ coactivation[k] >= threshold

\* a call that returned in its first step: no caller changed its position
ReturnedAtOnce ==
    calls' = calls /\ last' # last /\ last'.op = "maybe_add_related_link"

\* a step of a maybe_add_related_link call of caller p that goes on or went on
RelatedStepOf(p) ==
    /\ calls'[p] # calls[p]
    /\ \/ calls[p].op = "maybe_add_related_link"
       \/ calls'[p].op = "maybe_add_related_link"

\* C28: maybe_add_related_link(s, t, threshold) returns false and changes
\* nothing when there is no coactivation row s -> t or its weight is below
\* threshold; otherwise it returns true and leaves s with exactly one
\* "related" link to t, however often it is called.
RelatedLinkPromotedOnce ==
    [][/\ ReturnedAtOnce =>
             /\ last'.result = FALSE
             /\ ~WeightReaches(last'.source_id, last'.target_id, last'.threshold)
             /\ memories' = memories /\ coactivation' = coactivation
       /\ \A p \in Procs : RelatedStepOf(p) =>
             /\ coactivation' = coactivation
             /\ Stored' = Stored
             /\ IF calls[p] = Idle
                THEN /\ memories' = memories
                     /\ WeightReaches(calls'[p].source_id, calls'[p].target_id,
                                      calls'[p].threshold)
                ELSE /\ \A id \in Stored \ {calls[p].source_id} :
                           memories'[id] = memories[id]
                     /\ \A t \in Stored :
                           Cardinality(RelatedLinks(memories', calls[p].source_id, t)) <= 1
                     /\ (calls'[p] = Idle) =>
                           /\ last'.result = TRUE
                           /\ Cardinality(RelatedLinks(memories', calls[p].source_id,
                                                       calls[p].target_id)) = 1]_vars

\* the call returned true for a pair that already held its "related" link
RelatedLinkCalledAgain ==
    /\ last.op = "maybe_add_related_link"
    /\ last.result = TRUE
    /\ ~last.written
    /\ Weight(coactivation, last.source_id, last.target_id) >= last.threshold
    /\ Cardinality(RelatedLinks(memories, last.source_id, last.target_id)) = 1

\* ----- specification: one competition over any small pool ----------------------
PoolLen == 3

SelectIds == {1, 2}
SelectTokenSets == {{}, {1}, {1, 2}}
SelectFeatures == {<<0, <<0, 0, 0>>>>, <<Scale, <<0, 0, 0>>>>, <<0, <<Scale, Scale, Scale>>>>}

\* pools of up to PoolLen candidates; a memory may stand in the pool more than
\* once, with the tokens of its content each time
SelectPools ==
    UNION {{[i \in 1..n |-> Candidate(ids[i], tok[ids[i]], f[i][1], f[i][2])] :
               ids \in [1..n -> SelectIds], f \in [1..n -> SelectFeatures],
               tok \in [SelectIds -> SelectTokenSets]} : n \in 0..PoolLen}

InitSelect ==
    /\ memories = <<>>
    /\ rowids = <<>>
    /\ embeddings = {}
    /\ coactivation = <<>>
    /\ episodes = <<>>
    /\ bm25_dirty = TRUE
    /\ bm25_doc_ids = {}
    /\ calls = [p \in Procs |-> Idle]
    /\ \E pool \in SelectPools : last = [op |-> "pool", candidates |-> pool]
    /\ next_id = 1
    /\ next_ep = 1
    /\ clock = 0
    /\ db = TRUE
    /\ hopfield_beta = ConfiguredBeta

NextSelect ==
    \E m \in {0 - 1, 0, 1, 2, PoolLen + 1}, t \in Temperatures : SelectStep(m, t)

SpecSelect == InitSelect /\ [][NextSelect]_vars

\* the ids chosen before round k
ChosenBefore(k) == {last.selected[j][1].id : j \in 1..(k - 1)}

\* the largest token overlap of a candidate with the entries chosen before round k
OverlapBefore(cand, k) ==
    LET ov == {Jaccard(cand.tokens, last.selected[j][1].tokens) : j \in 1..(k - 1)}
    IN  IF ov = {} THEN 0 ELSE CHOOSE m \in ov : \A o \in ov : o <= m

\* the utility of a candidate in round k
UtilityInRound(cand, k) ==
    CandidateUtility(cand, OverlapBefore(cand, k), last.temperature)

PoolIds == {last.candidates[i].id : i \in 1..Len(last.candidates)}

\* C29: select_workspace_candidates returns min(max_results, number of
\* distinct memory ids in the pool) entries with pairwise distinct ids; the
\* entry of each round has the largest utility among the candidates not yet
\* chosen, the redundancy being the largest token overlap with the entries
\* chosen before; max_results <= 0 or an empty pool gives the empty list.
WorkspaceSelectsByUtility ==
    last.op = "select_workspace_candidates" =>
        LET sel == last.selected
        IN  /\ (last.max_results <= 0 \/ last.candidates = <<>>) => (sel = <<>>)
            /\ (last.max_results > 0) =>
                  Len(sel) = Min(last.max_results, Cardinality(PoolIds))
            /\ \A i, j \in 1..Len(sel) : (i # j) => (sel[i][1].id # sel[j][1].id)
            /\ \A k \in 1..Len(sel) :
                  /\ \E i \in 1..Len(last.candidates) : last.candidates[i] = sel[k][1]
                  /\ sel[k][2] = UtilityInRound(sel[k][1], k)
                  /\ \A i \in 1..Len(last.candidates) :
                        (last.candidates[i].id \notin ChosenBefore(k)) =>
                            ~UtilityLess(sel[k][2], UtilityInRound(last.candidates[i], k))

\* a memory stood in the pool twice: two entries came back although more were
\* asked for, and the second was chosen under a redundancy penalty
WorkspaceSkipsRepeatedMemory ==
    /\ last.op = "select_workspace_candidates"
    /\ Len(last.candidates) = PoolLen
    /\ last.max_results > PoolLen
    /\ Len(last.selected) = 2
    /\ OverlapBefore(last.selected[2][1], 2) > 0
    /\ last.selected[1][1] # last.candidates[1]

\* ----- specification: the neighbours of one node with every kind of edge --------
NbMem == 3

NbTargets == 2..NbMem
NbLinkTypes == {"similar", "caused_by", "contrast"}
NbLinked == {<<>>, <<2>>, <<NbMem, 2>>}
NbLink(t, ty) == [target_id |-> t, link_type |-> ty, created_at |-> 0, note |-> "n"]
NbLinks ==
    UNION {[1..n -> {NbLink(t, ty) : t \in NbTargets, ty \in NbLinkTypes}] : n \in 0..2}

\* raw coactivation weights: below 0, 0.9, above 1; NoRow for no row
NoRow == 0 - WeightOne
NbWeights == {NoRow, 0 - StrengthSteps, (9 * WeightOne) \div 10, WeightOne + StrengthSteps}

InitNeighbors ==
    /\ \E linked \in NbLinked, links \in NbLinks :
          memories = [id \in 1..NbMem |->
                        IF id = 1
                        THEN [NewRow(1, 0, linked) EXCEPT !.links = links]
                        ELSE NewRow(1, 0, <<>>)]
    /\ \E w \in [NbTargets -> NbWeights] :
          coactivation = [k \in {<<1, t>> : t \in {u \in NbTargets : w[u] # NoRow}} |->
                            w[k[2]]]
    /\ rowids = SetToSeq(1..NbMem)
    /\ embeddings = 1..NbMem
    /\ episodes = <<>>
    /\ bm25_dirty = TRUE
    /\ bm25_doc_ids = {}
    /\ calls = [p \in Procs |-> Idle]
    /\ last = [op |-> "init"]
    /\ next_id = NbMem + 1
    /\ next_ep = 1
    /\ clock = 0
    /\ db = TRUE
    /\ hopfield_beta = ConfiguredBeta

NextNeighbors ==
    \E b \in {0, 1, 2, NbMem + 1} : last.op = "init" /\ Spread(<<1>>, b, 1)

SpecNeighbors == InitNeighbors /\ [][NextNeighbors]_vars

\* the weights, in hundredths, of the edges from node 1 to t
EdgeWeights(t) ==
    {100 : i \in {j \in 1..Len(memories[1].linked_ids) : memories[1].linked_ids[j] = t}}
    \cup {IF memories[1].links[i].link_type = "similar" THEN 100
          ELSE IF memories[1].links[i].link_type \in {"related", "caused_by", "leads_to"}
               THEN 85 ELSE 80 :
            i \in {j \in 1..Len(memories[1].links) : memories[1].links[j].target_id = t}}
    \cup {IF coactivation[k] < 0 THEN 0
          ELSE IF coactivation[k] > WeightOne THEN 100
          ELSE (coactivation[k] * 100) \div WeightOne :
            k \in {q \in DOMAIN coactivation : q[1] = 1 /\ q[2] = t}}

BestWeight(t) == CHOOSE m \in EdgeWeights(t) : \A o \in EdgeWeights(t) : o <= m

Neighbors == {t \in NbTargets : EdgeWeights(t) # {}}

\* the ids spread asked for, in order
Fetched == [i \in 1..Len(last.fetch_calls) |-> last.fetch_calls[i][1]]

\* C30: the neighbours spread takes from a node are the targets of its legacy
\* links (1.0), typed links (similar 1.0; related, caused_by, leads_to 0.85;
\* others 0.8) and coactivation rows (clamped to [0, 1]), each once with its
\* largest weight, in descending weight, cut to max_branches.
NeighborsByWeight ==
    last.op = "spread" =>
        /\ Len(Fetched) = Min(last.max_branches, Cardinality(Neighbors))
        /\ Range(Fetched) \subseteq Neighbors
        /\ Cardinality(Range(Fetched)) = Len(Fetched)
        /\ \A i, j \in 1..Len(Fetched) :
              (i <= j) => (BestWeight(Fetched[i]) >= BestWeight(Fetched[j]))
        /\ \A t \in Neighbors \ Range(Fetched), u \in Range(Fetched) :
              BestWeight(t) <= BestWeight(u)

\* a coactivation weight above a typed link's weight moved the target ahead of
\* a neighbour that was cut off
NeighborRaisedByCoactivation ==
    /\ last.op = "spread"
    /\ last.max_branches = 1
    /\ Len(Fetched) = 1
    /\ Cardinality(Neighbors) > 1
    /\ Cardinality(EdgeWeights(Fetched[1])) > 1
    /\ <<1, Fetched[1]>> \in DOMAIN coactivation
    /\ \A i \in 1..Len(memories[1].links) :
          memories[1].links[i].link_type # "similar"
    /\ memories[1].linked_ids = <<>>
    /\ \E t \in Neighbors : BestWeight(t) < BestWeight(Fetched[1])

\* ----- specification: one consolidation run over a drawn store -----------------
ReplayMem == 3

InitReplay ==
    /\ \E ts \in [1..ReplayMem -> 0..1], pe \in [1..ReplayMem -> {0, PeOne}] :
          memories = [id \in 1..ReplayMem |->
                        [NewRow(1, ts[id], <<>>) EXCEPT !.prediction_error = pe[id]]]
    /\ rowids = SetToSeq(1..ReplayMem)
    /\ embeddings = 1..ReplayMem
    /\ coactivation = <<>>
    /\ episodes = <<>>
    /\ bm25_dirty = TRUE
    /\ bm25_doc_ids = {}
    /\ calls = [p \in Procs |-> Idle]
    /\ last = [op |-> "init"]
    /\ next_id = ReplayMem + 1
    /\ next_ep = 1
    /\ clock = 1
    /\ db = TRUE
    /\ hopfield_beta = ConfiguredBeta

NextReplay ==
    \E e \in {0, 1, 2, ReplayMem + 1} :
        last.op = "init" /\ ConsolidateMemories("c1", 1, e, StrengthSteps)

SpecReplay == InitReplay /\ [][NextReplay]_vars

\* the replay events of the run just made that memory id took part in
EventsOf(id) ==
    Cardinality({idx \in 1..last'.stats.replay_events :
                    id \in {last'.recent[idx], last'.recent[idx + 1]}})

\* a prediction_error multiplied k times by 0.9
RECURSIVE Decayed(_, _)
Decayed(pe, k) == IF k = 0 THEN pe ELSE (9 * Decayed(pe, k - 1)) \div 10

\* C31: a run replays the consecutive pairs of the eligible recent memories and
\* stops after max_replay_events pairs; a memory that takes part in k replay
\* events ends with activation_count raised by k and with its prior
\* prediction_error times 0.9^k.
ReplayDecaysPerEvent ==
    [][ConsolidateStep =>
          /\ last'.stats.replay_events =
                (IF Len(last'.recent) < 2 THEN 0
                 ELSE Min(Max(0, last'.max_replay_events), Len(last'.recent) - 1))
          /\ \A id \in Stored :
                /\ memories'[id].activation_count =
                      memories[id].activation_count + EventsOf(id)
                /\ memories'[id].prediction_error =
                      Decayed(memories[id].prediction_error, EventsOf(id))]_vars

\* ----- predictive.query_ambiguity_score, association.adaptive_search_params -----
\* predictive.py:13-29  tokenize / context_tokens: the set of the words of a text
\* (a text is the sequence of its words, already in lower case)
ContextTokens(context) == Range(context)

\* predictive.py:62-75  query_ambiguity_score as <<numerator, denominator>>:
\* tokens = list(context_tokens(context)); the brevity score is kept in tenths
QueryAmbiguityScore(context) ==
    LET tokens == SetToSeq(ContextTokens(context))
        token_count == Len(tokens)
        unique == Cardinality(Range(tokens))
        brevity == IF token_count <= 2 THEN 10 ELSE Max(0, 10 - token_count)
        den == 100 * token_count
        num == 6 * brevity * token_count + 40 * (token_count - unique)
    IN  IF tokens = <<>> THEN <<100, 100>>
        ELSE <<Max(0, Min(den, num)), den>>

\* round(): to the nearest integer, a half to the even neighbour
RoundHalfEven(n, d) ==
    LET q == n \div d
        r == n - q * d
    IN  IF 2 * r < d THEN q
        ELSE IF 2 * r > d THEN q + 1
        ELSE IF q % 2 = 0 THEN q ELSE q + 1

\* association.py:29-30  max(1, min(8, branches)), max(1, min(5, depth))
ClampLimitNone(limit, x) == x

ClampLimit(limit, x) == Max(1, Min(limit, x))

\* association.py:12-31  adaptive_search_params: <<branches, depth>>
AdaptiveSearchParams(context, requested_branches, requested_depth, seed_count) ==
    LET a == QueryAmbiguityScore(context)
        den == a[2]
        num == IF seed_count <= 1 THEN Min(den, a[1] + den \div 5) ELSE a[1]
        branches == RoundHalfEven(requested_branches * ((8 * den) \div 10 + num), den)
        depth == RoundHalfEven(requested_depth * ((18 * den) \div 10 + num), 2 * den)
    IN  <<ClampLimit(8, branches), ClampLimit(5, depth)>>

\* ----- specification: one query scored, one pair of limits adapted ---------------
MaxQuery == 10

\* a query of n words, the first u of them distinct, the rest repeating word u
QueryOf(n, u) == [i \in 1..n |-> IF i <= u THEN i ELSE u]
Queries == {<<>>} \cup {QueryOf(n, u) : n \in 1..MaxQuery, u \in 1..MaxQuery}

InitQuery ==
    /\ memories = <<>>
    /\ rowids = <<>>
    /\ embeddings = {}
    /\ coactivation = <<>>
    /\ episodes = <<>>
    /\ bm25_dirty = TRUE
    /\ bm25_doc_ids = {}
    /\ calls = [p \in Procs |-> Idle]
    /\ \E q \in Queries : last = [op |-> "query", context |-> q]
    /\ next_id = 1
    /\ next_ep = 1
    /\ clock = 0
    /\ db = TRUE
    /\ hopfield_beta = ConfiguredBeta

QueryAmbiguityStep ==
    /\ last.op = "query"
    /\ last' = [op |-> "query_ambiguity_score", context |-> last.context,
                score |-> QueryAmbiguityScore(last.context)]
    /\ UNCHANGED <<db, hopfield_beta, store, index, calls, next_id, next_ep, clock>>

AdaptiveStep(requested_branches, requested_depth, seed_count) ==
    /\ last.op = "query"
    /\ last' = [op |-> "adaptive_search_params", context |-> last.context,
                requested_branches |-> requested_branches,
                requested_depth |-> requested_depth, seed_count |-> seed_count,
                limits |-> AdaptiveSearchParams(last.context, requested_branches,
                                                requested_depth, seed_count)]
    /\ UNCHANGED <<db, hopfield_beta, store, index, calls, next_id, next_ep, clock>>

NextQuery ==
    \/ QueryAmbiguityStep
    \/ \E b \in {0 - 1, 0, 1, 3, 8, 20}, d \in {0 - 1, 0, 1, 3, 10}, n \in {0, 1, 2, 5} :
          AdaptiveStep(b, d, n)

SpecQuery == InitQuery /\ [][NextQuery]_vars

\* C32: adaptive_search_params returns branches in [1, 8] and depth in [1, 5]
\* for every context, requested_branches, requested_depth and seed_count.
AdaptiveLimitsBounded ==
    last.op = "adaptive_search_params" =>
        /\ last.limits[1] >= 1 /\ last.limits[1] <= 8
        /\ last.limits[2] >= 1 /\ last.limits[2] <= 5

\* requests far above the limits, on the most ambiguous query, were cut to 8 and 5
AdaptiveLimitsCut ==
    /\ last.op = "adaptive_search_params"
    /\ last.requested_branches = 20
    /\ last.requested_depth = 10
    /\ last.seed_count = 0
    /\ Len(last.context) = 1
    /\ last.limits = <<8, 5>>

\* C33: query_ambiguity is 0.6 * brevity + 0.4 * repetition, brevity being 1 for
\* at most 2 tokens and 1 - tokens / 10 (not below 0) beyond, repetition being
\* 1 - unique tokens / total tokens of the query; the score lies in [0, 1].
AmbiguityBlendsBrevityAndRepetition ==
    (last.op = "query_ambiguity_score" /\ last.context # <<>>) =>
        LET total == Len(last.context)
            unique == Cardinality({last.context[i] : i \in 1..total})
            brevity == IF total <= 2 THEN 10
                       ELSE IF total >= 10 THEN 0 ELSE 10 - total
        IN  /\ last.score[1] >= 0 /\ last.score[1] <= last.score[2]
            /\ last.score[1] * 100 * total =
                  (6 * brevity * total + 40 * (total - unique)) * last.score[2]

\* ----- specification: causal chains over graphs with shared targets -----------
DiamondMem == 4

DiamondIds == 1..DiamondMem

\* the caused_by links add_causal_link can leave on one memory: no target twice
DiamondLinkLists(id) ==
    {<<>>} \cup {<<TypedLink(t, "caused_by")>> : t \in DiamondIds \ {id}}
           \cup {<<TypedLink(ab[1], "caused_by"), TypedLink(ab[2], "caused_by")>> :
                    ab \in {q \in (DiamondIds \ {id}) \X (DiamondIds \ {id}) : q[1] # q[2]}}

\* DiamondMem saved memories after some completed add_causal_link calls
InitDiamond ==
    /\ \E links \in [DiamondIds -> UNION {DiamondLinkLists(id) : id \in DiamondIds}] :
          /\ \A id \in DiamondIds : links[id] \in DiamondLinkLists(id)
          /\ memories = [id \in DiamondIds |-> [NewRow(1, 0, <<>>) EXCEPT !.links = links[id]]]
    /\ rowids = SetToSeq(DiamondIds)
    /\ embeddings = DiamondIds
    /\ coactivation = <<>>
    /\ episodes = <<>>
    /\ bm25_dirty = TRUE
    /\ bm25_doc_ids = {}
    /\ calls = [p \in Procs |-> Idle]
    /\ last = [op |-> "init"]
    /\ next_id = DiamondMem + 1
    /\ next_ep = 1
    /\ clock = 0
    /\ db = TRUE
    /\ hopfield_beta = ConfiguredBeta

NextDiamond ==
    \E d \in {1, 2, MaxChainDepth} :
        last.op = "init" /\ GetCausalChain("c1", 1, "backward", d)

SpecDiamond == InitDiamond /\ [][NextDiamond]_vars

\* C34: get_causal_chain never returns the same memory twice, also on the
\* diamond A-caused_by->B, A-caused_by->C, B-caused_by->D, C-caused_by->D,
\* where D is returned once.
CausalChainNoRepeats ==
    (last.op = "get_causal_chain" /\ "result" \in DOMAIN last) =>
        \A i, j \in 1..Len(last.result) :
            last.result[i][1] = last.result[j][1] => i = j

\* ----- specification: one caller creating and deleting episodes ---------------
BackrefMem == 2

BackrefIds == 1..BackrefMem
BackrefLists == {<<1>>, <<2>>, <<1, 2>>}

\* BackrefMem saved memories, no episode yet; uuid4 hands out MaxEp + 1 ids
InitBackref ==
    /\ memories = [id \in BackrefIds |-> NewRow(1, 0, <<>>)]
    /\ rowids = SetToSeq(BackrefIds)
    /\ embeddings = BackrefIds
    /\ coactivation = <<>>
    /\ episodes = <<>>
    /\ bm25_dirty = TRUE
    /\ bm25_doc_ids = {}
    /\ calls = [p \in Procs |-> Idle]
    /\ last = [op |-> "init"]
    /\ next_id = BackrefMem + 1
    /\ next_ep = 0
    /\ clock = 0
    /\ db = TRUE
    /\ hopfield_beta = ConfiguredBeta

NextBackref ==
    \/ \E ms \in BackrefLists : CeStart("c1", ms)
    \/ CeSave("c1")
    \/ CeUpdate("c1")
    \/ \E e \in 0..MaxEp : DeStart("c1", e)
    \/ DeUpdate("c1")
    \/ DeDelete("c1")

SpecBackref == InitBackref /\ [][NextBackref]_vars

\* C35: between create_episode and delete_episode calls, a memory's episode_id
\* is absent or names an existing episode whose memory_ids holds the memory,
\* and every member listed by an existing episode points back to it, also when
\* one memory was placed in two episodes and one of them was deleted.
EpisodeBackrefsConsistent ==
    AllIdle =>
        /\ \A id \in Stored :
              \/ memories[id].episode_id = NoEpisode
              \/ \E e \in DOMAIN episodes :
                    /\ memories[id].episode_id = {e}
                    /\ id \in Range(episodes[e].memory_ids)
        /\ \A e \in DOMAIN episodes :
              \A id \in Range(episodes[e].memory_ids) \cap Stored :
                  memories[id].episode_id = {e}

\* ----- MemoryStore.record_activation as a call of its own ----------------------
\* prediction_error: float | None = None (store.py:786)
NoError == {}

\* store.py:783-787  the call is entered; get_by_id has not run yet
RaStart(p, memory_id, prediction_error) ==
    /\ IdleP(p)
    /\ calls' = [calls EXCEPT ![p] =
                    [op |-> "record_activation", pc |-> "get_by_id",
                     memory_id |-> memory_id, prediction_error |-> prediction_error]]
    /\ UNCHANGED <<db, hopfield_beta, store, index, last, next_id, next_ep, clock>>

\* store.py:788-796  memory = await self.get_by_id(memory_id); None returns
\* False; otherwise the payload is built from the row that was read
RaFetch(p) ==
    LET c == calls[p]
    IN  /\ c.op = "record_activation"
        /\ c.pc = "get_by_id"
        /\ IF c.memory_id \notin Stored
           THEN Finish(p, [op |-> "record_activation", memory_id |-> c.memory_id,
                           result |-> FALSE])
           ELSE /\ calls' = [calls EXCEPT ![p] =
                               [op |-> "record_activation", pc |-> "update",
                                memory_id |-> c.memory_id,
                                prediction_error |-> c.prediction_error,
                                activation_count |->
                                    memories[c.memory_id].activation_count + 1,
                                last_activated |-> clock]]
                /\ last' = last
        /\ UNCHANGED <<db, hopfield_beta, store, index, next_id, next_ep, clock>>

\* store.py:797, 754-779  update_memory_fields: UPDATE memories SET ... WHERE id
RaUpdate(p) ==
    LET c == calls[p]
    IN  /\ c.op = "record_activation"
        /\ c.pc = "update"
        /\ memories' =
              [memories EXCEPT
                  ![c.memory_id].activation_count = c.activation_count,
                  ![c.memory_id].last_activated = c.last_activated,
                  ![c.memory_id].prediction_error =
                      IF c.prediction_error = NoError THEN @
                      ELSE Max(0, Min(PeOne, CHOOSE x \in c.prediction_error : TRUE))]
        /\ Finish(p, [op |-> "record_activation", memory_id |-> c.memory_id,
                       result |-> TRUE])
        /\ UNCHANGED <<db, hopfield_beta, rowids, embeddings, coactivation, episodes, index,
                       next_id, next_ep, clock>>

\* ----- specification: two callers recording activations ------------------------
ActMem == 2
ActCount == 3        \* no call is started on a memory activated ActCount times

ActIds == 1..ActMem

InitActivation ==
    /\ memories = [id \in ActIds |-> NewRow(1, 0, <<>>)]
    /\ rowids = SetToSeq(ActIds)
    /\ embeddings = ActIds
    /\ coactivation = <<>>
    /\ episodes = <<>>
    /\ bm25_dirty = TRUE
    /\ bm25_doc_ids = {}
    /\ calls = [p \in Procs |-> Idle]
    /\ last = [op |-> "init"]
    /\ next_id = ActMem + 1
    /\ next_ep = 1
    /\ clock = 1
    /\ db = TRUE
    /\ hopfield_beta = ConfiguredBeta

NextActivation ==
    \/ \E p \in Procs, id \in 1..(ActMem + 1), e \in {NoError, {PeOne \div 2}} :
          /\ (id \in Stored) => (memories[id].activation_count < ActCount)
          /\ RaStart(p, id, e)
    \/ \E p \in Procs : RaFetch(p)
    \/ \E p \in Procs : RaUpdate(p)

SpecActivation == InitActivation /\ [][NextActivation]_vars

\* C36: every completed record_activation call on a stored memory raises its
\* activation_count by exactly one, so N completed calls raise it by N, also
\* when the calls of two callers interleave at their storage suspension points.
ActivationCountsEveryCall ==
    [][\A p \in Procs :
          (/\ calls[p].op = "record_activation"
           /\ calls'[p] = Idle
           /\ last'.result)
          => (memories'[calls[p].memory_id].activation_count =
                 memories[calls[p].memory_id].activation_count + 1)]_vars

\* ----- add_causal_link calls of two callers on one source ----------------------
\* C37: two add_causal_link calls on the same source with different targets
\* that both complete successfully leave both links on the source: the write
\* of one call never removes a stored link to another target, for every
\* interleaving of the calls at their storage suspension points.
CausalLinkWritesKept ==
    [][\A p \in Procs :
          (/\ calls[p].op = "add_causal_link"
           /\ calls[p].pc = "write"
           /\ calls'[p] = Idle)
          => LET s == calls[p].source_id
             IN  \A i \in 1..Len(memories[s].links) :
                    (memories[s].links[i].target_id # calls[p].target_id)
                    => \E j \in 1..Len(memories'[s].links) :
                          memories'[s].links[j] = memories[s].links[i]]_vars

\* ----- MemoryStore.hopfield_recall ----------------------------------------------
\* beta: float | None = None (store.py:1335)
NoBeta == {}

\* the beta a caller asks for: its override, or the configured value
AskedBeta(beta) == IF beta = NoBeta THEN ConfiguredBeta ELSE CHOOSE b \in beta : TRUE

\* store.py:1338-1349  the network is loaded; original_beta is read, the override
\* is set, and the call suspends in _encode_query
HrStart(p, beta) ==
    /\ IdleP(p)
    /\ calls' = [calls EXCEPT ![p] =
                    [op |-> "hopfield_recall", pc |-> "encode", beta |-> beta,
                     original_beta |-> hopfield_beta]]
    /\ hopfield_beta' = IF beta = NoBeta THEN hopfield_beta ELSE CHOOSE b \in beta : TRUE
    /\ UNCHANGED <<db, store, index, last, next_id, next_ep, clock>>

\* store.py:1350-1355  retrieve runs with the network's beta of that moment;
\* finally: self._hopfield.beta = original_beta
HrRetrieve(p) ==
    LET c == calls[p]
    IN  /\ c.op = "hopfield_recall"
        /\ c.pc = "encode"
        /\ hopfield_beta' = c.original_beta
        /\ Finish(p, [op |-> "hopfield_recall", beta |-> c.beta,
                       retrieved_with |-> {hopfield_beta}])
        /\ UNCHANGED <<db, store, index, next_id, next_ep, clock>>

\* store.py:1349, 1352-1353  _encode_query raises: finally restores, the
\* exception leaves the call
HrEncodeFail(p) ==
    LET c == calls[p]
    IN  /\ c.op = "hopfield_recall"
        /\ c.pc = "encode"
        /\ hopfield_beta' = c.original_beta
        /\ Finish(p, [op |-> "hopfield_recall", beta |-> c.beta,
                       retrieved_with |-> {}, error |-> "embedding"])
        /\ UNCHANGED <<db, store, index, next_id, next_ep, clock>>

\* ----- specification: two callers of hopfield_recall ----------------------------
LowBeta == 1
HighBeta == 8

BetaOverrides == {NoBeta, {LowBeta}, {HighBeta}}

NextBeta ==
    \/ \E p \in Procs, b \in BetaOverrides : HrStart(p, b)
    \/ \E p \in Procs : HrRetrieve(p)
    \/ \E p \in Procs : HrEncodeFail(p)

SpecBeta == InitActivation /\ [][NextBeta]_vars

\* C38: once no hopfield_recall is in flight, whether the calls ended normally
\* or with an error, the network's beta is the configured value, and every
\* retrieval ran with the beta its own caller asked for, for every interleaving
\* of calls with different beta overrides.
HopfieldBetaPerCaller ==
    /\ (\A p \in Procs : calls[p].op # "hopfield_recall")
          => (hopfield_beta = ConfiguredBeta)
    /\ (last.op = "hopfield_recall")
          => (last.retrieved_with \subseteq {AskedBeta(last.beta)})

\* ----- the lexical index while a writer and a searcher interleave ----------------
\* a save or save_with_auto_link of caller p is under way
Writing(p) == calls[p].op \in {"save", "save_with_auto_link"}

\* C39: whenever the lexical index is marked clean and no write is under way,
\* it covers exactly the stored memories, also when a save completed while the
\* rebuild of a concurrent search_with_scoring was in progress.
CleanIndexCoversStore ==
    (~bm25_dirty /\ \A p \in Procs : ~Writing(p)) => (bm25_doc_ids = Stored)

\* ----- recall_divergent: from the selection to the results ---------------------
\* a utility <<numerator, temp>> is numerator / (10 * Scale * JaccardOne * temp)
UtilityOne(utility) == 10 * Scale * JaccardOne * utility[2]

\* store.py:1263  score_distance = max(0.0, 1.0 - utility), as <<numerator, denominator>>
ScoreDistanceSigned(utility) == <<UtilityOne(utility) - utility[1], UtilityOne(utility)>>

ScoreDistance(utility) ==
    <<Max(0, UtilityOne(utility) - utility[1]), UtilityOne(utility)>>

\* store.py:1250-1265  one MemorySearchResult per selected candidate, in order
DivergentResults(selected) ==
    [i \in 1..Len(selected) |->
        [id |-> selected[i][1].id, distance |-> ScoreDistance(selected[i][2])]]

\* store.py:1190, 1244-1265  the competition over the candidate pool with
\* max_results = n_results clamped to [1, 20], then the results
DivergentSelectStep(n_results, temperature) ==
    /\ last.op = "pool"
    /\ LET selected == SelectWorkspaceCandidates(last.candidates, ClampResults(n_results),
                                                 temperature)
       IN  last' = [op |-> "divergent_results", candidates |-> last.candidates,
                    n_results |-> n_results, temperature |-> temperature,
                    selected |-> selected, results |-> DivergentResults(selected)]
    /\ UNCHANGED <<db, hopfield_beta, store, index, calls, next_id, next_ep, clock>>

NextPseudo ==
    \E n \in {0, 1, 2, PoolLen + 1}, t \in Temperatures : DivergentSelectStep(n, t)

SpecPseudo == InitSelect /\ [][NextPseudo]_vars

\* the order of two pseudo-distances
DistanceLess(a, b) == a[1] * b[2] < b[1] * a[2]

====
